---- MODULE Spec2Model ----
(***************************************************************************)
(* infinite-chat: ContextManager (sliding window + compaction),            *)
(* AgentManager (agent selection, chaining decision), Mem0Manager (local   *)
(* memory store, remote fallback) and the message flow of ChatBotEngine,   *)
(* modelled from src/src/character/manager.ts; PluginManager, modelled     *)
(* from src/src/plugins/index.ts.                                          *)
(***************************************************************************)
EXTENDS Integers, Sequences, FiniteSets, TLC

VARIABLES
    config,           \* ContextManager.config: shortTermWindow, compressThreshold
    shortTermMemory,  \* ContextManager.shortTermMemory: Map sessionId -> Message[]
    summaries,        \* ContextManager.summaries: Map sessionId -> string[]
    appended,         \* per session: addMessage calls since construction or the last clearContext
    nonUser,          \* number of non-user turns passed to addMessage so far
    agents,           \* AgentManager.agents: Map id -> Agent, in insertion order
    defaultAgentId,   \* AgentManager.defaultAgentId
    llmProviders,     \* AgentManager.llmProviders: Map id -> provider
    groupChatConfig,  \* AgentManager.groupChatConfig
    eng,              \* per handleIncomingMessage invocation: position and locals
    received,         \* number of incoming messages handed to the engine
    mem0Config,       \* Mem0Manager.config: localMode
    client,           \* Mem0Manager.client: the remote SDK client, or null
    initClientPc,     \* position of the asynchronous Mem0Manager.initClient
    localStore,       \* Mem0Manager.localStore: Map userId -> Memory[]
    nextMemoryId,     \* number of the next local memory id
    plugins,          \* PluginManager.plugins: Plugin[]
    rateLimit,        \* PermissionManager: rolePermissions.get(user.role).rateLimit
    messageCounts,    \* PermissionManager.messageCounts: Map key -> counters
    now,              \* Date.now(), in milliseconds
    allowedAt,        \* the times of the checkRateLimit calls that were allowed
    addCalls,         \* the addMessage calls of the interleaved run: position, array held
    last              \* the last operation: name, arguments, returned value

ctxVars == <<config, shortTermMemory, summaries, appended, nonUser>>
agentVars == <<agents, defaultAgentId, llmProviders, groupChatConfig>>
engVars == <<eng, received>>
memVars == <<mem0Config, client, initClientPc, localStore, nextMemoryId>>
permVars == <<rateLimit, messageCounts, now, allowedAt>>
vars == <<config, shortTermMemory, summaries, appended, nonUser,
          agents, defaultAgentId, llmProviders, groupChatConfig,
          eng, received, mem0Config, client, initClientPc, localStore,
          nextMemoryId, plugins, rateLimit, messageCounts, now, allowedAt, addCalls, last>>

----------------------------------------------------------------------------
(* Bounds *)
MaxAdds == 15        \* addMessage calls for session s1 per run
MaxOtherAdds == 2    \* addMessage calls for session s2 per run
MaxNonUser == 1      \* assistant/system turns per run of the store API
MaxDocAdds == 52     \* addMessage calls per session under the documented config

Sessions == {"s1", "s2"}
Roles == {"user", "assistant", "system"}

\* (shortTermWindow, compressThreshold) pairs the store is constructed with
Configs ==
    { [shortTermWindow |-> 1,  compressThreshold |-> 1],
      [shortTermWindow |-> 3,  compressThreshold |-> 2],
      [shortTermWindow |-> 5,  compressThreshold |-> 10],
      [shortTermWindow |-> 9,  compressThreshold |-> 10],
      [shortTermWindow |-> 12, compressThreshold |-> 5],
      [shortTermWindow |-> 12, compressThreshold |-> 11] }

\* the configuration of the README and of the start script
DocConfig == [shortTermWindow |-> 20, compressThreshold |-> 50]

\* compressHistory returns early below this length
MinCompressLen == 10
\* generateSimpleSummary quotes this many user contents
TopicCount == 3

----------------------------------------------------------------------------
(* ContextManager *)

Min(a, b) == IF a < b THEN a ELSE b

\* Map.get(k) || []
GetOrEmpty(map, k) == IF k \in DOMAIN map THEN map[k] ELSE <<>>

\* Map.set(k, v)
MapSet(map, k, v) == [x \in DOMAIN map \cup {k} |-> IF x = k THEN v ELSE map[x]]

\* Map.delete(k)
MapDelete(map, k) == [x \in DOMAIN map \ {k} |-> map[x]]

IsUser(m) == m.role = "user"
IsAssistant(m) == m.role = "assistant"

\* the counts of user and assistant turns and the first three user contents
generateSimpleSummary(messages) ==
    LET userMsgs == SelectSeq(messages, IsUser)
        assistantMsgs == SelectSeq(messages, IsAssistant)
    IN [users |-> Len(userMsgs),
        assistants |-> Len(assistantMsgs),
        topics |-> [i \in 1..Min(TopicCount, Len(userMsgs)) |-> userMsgs[i].content]]

\* compressHistory without the early return for short windows
compressHistory_noMinimum(mem, sums, sessionId) ==
    LET messages == GetOrEmpty(mem, sessionId)
        half == Len(messages) \div 2
        toCompress == SubSeq(messages, 1, half)
        toKeep == SubSeq(messages, half + 1, Len(messages))
        summary == generateSimpleSummary(toCompress)
    IN [mem |-> MapSet(mem, sessionId, toKeep),
        sums |-> MapSet(sums, sessionId, Append(GetOrEmpty(sums, sessionId), summary)),
        replaced |-> TRUE]

\* compressHistory splitting at the rounded-up midpoint
compressHistory_ceilHalf(mem, sums, sessionId) ==
    LET messages == GetOrEmpty(mem, sessionId)
        half == (Len(messages) + 1) \div 2
        toCompress == SubSeq(messages, 1, half)
        toKeep == SubSeq(messages, half + 1, Len(messages))
        summary == generateSimpleSummary(toCompress)
    IN IF Len(messages) < MinCompressLen
       THEN [mem |-> mem, sums |-> sums, replaced |-> FALSE]
       ELSE [mem |-> MapSet(mem, sessionId, toKeep),
             sums |-> MapSet(sums, sessionId, Append(GetOrEmpty(sums, sessionId), summary)),
             replaced |-> TRUE]

\* compressHistory pushing the summary onto every session's summary list
compressHistory_sharedSummaries(mem, sums, sessionId) ==
    LET messages == GetOrEmpty(mem, sessionId)
        half == Len(messages) \div 2
        toCompress == SubSeq(messages, 1, half)
        toKeep == SubSeq(messages, half + 1, Len(messages))
        summary == generateSimpleSummary(toCompress)
    IN IF Len(messages) < MinCompressLen
       THEN [mem |-> mem, sums |-> sums, replaced |-> FALSE]
       ELSE [mem |-> MapSet(mem, sessionId, toKeep),
             sums |-> [x \in DOMAIN mem |-> Append(GetOrEmpty(sums, x), summary)],
             replaced |-> TRUE]

\* compressHistory(sessionId): the older half becomes one summary, the
\* newer half is stored under sessionId as a NEW array
compressHistory(mem, sums, sessionId) ==
    LET messages == GetOrEmpty(mem, sessionId)
        half == Len(messages) \div 2
        toCompress == SubSeq(messages, 1, half)
        toKeep == SubSeq(messages, half + 1, Len(messages))
        summary == generateSimpleSummary(toCompress)
    IN IF Len(messages) < MinCompressLen
       THEN [mem |-> mem, sums |-> sums, replaced |-> FALSE]
       ELSE [mem |-> MapSet(mem, sessionId, toKeep),
             sums |-> MapSet(sums, sessionId, Append(GetOrEmpty(sums, sessionId), summary)),
             replaced |-> TRUE]

\* addMessage whose sliding-window shift reaches the array stored by
\* compressHistory
addMessage_shiftLive(cfg, mem, sums, sessionId, fullMessage) ==
    LET messages == Append(GetOrEmpty(mem, sessionId), fullMessage)
        mem1 == MapSet(mem, sessionId, messages)
        c == IF Len(messages) >= cfg.compressThreshold
             THEN compressHistory(mem1, sums, sessionId)
             ELSE [mem |-> mem1, sums |-> sums, replaced |-> FALSE]
        live == GetOrEmpty(c.mem, sessionId)
    IN [mem |-> IF Len(messages) > cfg.shortTermWindow
                THEN MapSet(c.mem, sessionId, Tail(live)) ELSE c.mem,
        sums |-> c.sums,
        returned |-> fullMessage]

\* addMessage without the sliding-window shift
addMessage_noShift(cfg, mem, sums, sessionId, fullMessage) ==
    LET messages == Append(GetOrEmpty(mem, sessionId), fullMessage)
        mem1 == MapSet(mem, sessionId, messages)
        c == IF Len(messages) >= cfg.compressThreshold
             THEN compressHistory(mem1, sums, sessionId)
             ELSE [mem |-> mem1, sums |-> sums, replaced |-> FALSE]
    IN [mem |-> c.mem, sums |-> c.sums, returned |-> fullMessage]

\* addMessage evicting with pop() instead of shift()
addMessage_pop(cfg, mem, sums, sessionId, fullMessage) ==
    LET messages == Append(GetOrEmpty(mem, sessionId), fullMessage)
        mem1 == MapSet(mem, sessionId, messages)
        c == IF Len(messages) >= cfg.compressThreshold
             THEN compressHistory(mem1, sums, sessionId)
             ELSE [mem |-> mem1, sums |-> sums, replaced |-> FALSE]
        popped == IF Len(messages) > cfg.shortTermWindow
                  THEN SubSeq(messages, 1, Len(messages) - 1) ELSE messages
    IN [mem |-> IF c.replaced THEN c.mem ELSE MapSet(c.mem, sessionId, popped),
        sums |-> c.sums,
        returned |-> fullMessage]

\* addMessage(sessionId, message), run without interleaving.  `messages' is
\* the array the map held when the call started: push and shift act on it,
\* so after compressHistory stored a new array the shift no longer reaches
\* the map's entry.
addMessage(cfg, mem, sums, sessionId, fullMessage) ==
    LET messages == Append(GetOrEmpty(mem, sessionId), fullMessage)
        mem1 == MapSet(mem, sessionId, messages)
        c == IF Len(messages) >= cfg.compressThreshold
             THEN compressHistory(mem1, sums, sessionId)
             ELSE [mem |-> mem1, sums |-> sums, replaced |-> FALSE]
        shifted == IF Len(messages) > cfg.shortTermWindow THEN Tail(messages) ELSE messages
    IN [mem |-> IF c.replaced THEN c.mem ELSE MapSet(c.mem, sessionId, shifted),
        sums |-> c.sums,
        returned |-> fullMessage]

SummaryHeader == "[summary]"

\* the synthetic turn of getContext: the summaries joined in stored order
SummaryTurn(sessionId, ss) ==
    [id |-> "summary", sessionId |-> sessionId, role |-> "system",
     content |-> <<SummaryHeader>> \o ss]

\* getContext creating the session entry the way addMessage does
getContext_create(mem, sums, sessionId) ==
    LET mem1 == IF sessionId \in DOMAIN mem THEN mem ELSE MapSet(mem, sessionId, <<>>)
        messages == mem1[sessionId]
        ss == GetOrEmpty(sums, sessionId)
    IN [mem |-> mem1, sums |-> sums,
        returned |-> IF Len(ss) > 0
                     THEN <<SummaryTurn(sessionId, ss)>> \o messages
                     ELSE messages]

\* getContext(sessionId): reads both maps, writes neither
getContext(mem, sums, sessionId) ==
    LET messages == GetOrEmpty(mem, sessionId)
        ss == GetOrEmpty(sums, sessionId)
    IN [mem |-> mem, sums |-> sums,
        returned |-> IF Len(ss) > 0
                     THEN <<SummaryTurn(sessionId, ss)>> \o messages
                     ELSE messages]

\* clearContext forgetting to drop the summaries
clearContext_keepSummaries(mem, sums, sessionId) ==
    [mem |-> MapDelete(mem, sessionId), sums |-> sums]

\* clearContext(sessionId)
clearContext(mem, sums, sessionId) ==
    [mem |-> MapDelete(mem, sessionId), sums |-> MapDelete(sums, sessionId)]

\* getStats(sessionId)
getStats(mem, sums, sessionId) ==
    [messages |-> Len(GetOrEmpty(mem, sessionId)),
     summaries |-> Len(GetOrEmpty(sums, sessionId))]

\* the turn built by addMessage: a fresh id, the caller's role and content
FullMessage(sessionId, role, n) ==
    [id |-> n, sessionId |-> sessionId, role |-> role, content |-> n]

NoOp == [op |-> "none"]

AddBound(s) == IF s = "s1" THEN MaxAdds ELSE MaxOtherAdds

----------------------------------------------------------------------------
(* Strings: sequences of one-character strings *)

MaxContentLen == 3   \* length of message and response texts

Alphabet == {"a", "B", "@", " "}
WordChars == {"a", "b", "A", "B"}

\* String.prototype.toLowerCase on one character
Lower(c) == IF c = "A" THEN "a" ELSE IF c = "B" THEN "b" ELSE c

toLowerCase(str) == [i \in 1..Len(str) |-> Lower(str[i])]

\* String.prototype.includes
includes(str, sub) ==
    \E i \in 0..(Len(str) - Len(sub)) : SubSeq(str, i + 1, i + Len(sub)) = sub

RECURSIVE SeqsUpTo(_, _)
SeqsUpTo(set, n) ==
    IF n = 0 THEN {<<>>}
    ELSE LET shorter == SeqsUpTo(set, n - 1)
         IN shorter \cup {Append(t, c) : t \in {u \in shorter : Len(u) = n - 1}, c \in set}

Contents == SeqsUpTo(Alphabet, MaxContentLen)

\* content.match(/@(\w+)/): the leftmost "@" that a word character follows,
\* with the longest run of word characters after it
atMatch(content) ==
    LET starts == {i \in 1..(Len(content) - 1) :
                      content[i] = "@" /\ content[i + 1] \in WordChars}
    IN IF starts = {}
       THEN [found |-> FALSE, word |-> <<>>]
       ELSE LET at == CHOOSE i \in starts : \A j \in starts : i <= j
                stop == CHOOSE e \in (at + 1)..Len(content) :
                            /\ \A k \in (at + 1)..e : content[k] \in WordChars
                            /\ (e = Len(content) \/ content[e + 1] \notin WordChars)
            IN [found |-> TRUE, word |-> SubSeq(content, at + 1, stop)]

----------------------------------------------------------------------------
(* AgentManager *)

MaxContextLen == 2      \* turns of the context passed to selectAgent
MaxChainCount == 2      \* largest chainCount passed to shouldChainAgent

Null == "null"
Undefined == [undefined |-> TRUE]
NoAgentId == "none"

\* agent definitions a configuration may list; BobPlain re-registers "bob"
\* without triggers, default flag and override
Ann == [id |-> "ann", name |-> <<"B", "a">>, triggers |-> <<>>,
        isDefault |-> FALSE, llmOverride |-> Null]
Bob == [id |-> "bob", name |-> <<"b">>, triggers |-> << <<"A", "a">> >>,
        isDefault |-> TRUE, llmOverride |-> "bobModel"]
Cy == [id |-> "cy", name |-> <<"a">>, triggers |-> << <<"@", "b">>, <<" ">> >>,
       isDefault |-> FALSE, llmOverride |-> Null]
BobPlain == [id |-> "bob", name |-> <<"b">>, triggers |-> <<>>,
             isDefault |-> FALSE, llmOverride |-> Null]
AgentDefs == {Ann, Bob, Cy, BobPlain}
AgentIds == {"ann", "bob", "cy"}

\* the groupChat block of the start script, and the variations exercised
DocGroupChat == [enabled |-> FALSE, agentInteraction |-> FALSE,
                 maxAgentChain |-> 2, chainThreshold |-> 50]
GroupChatConfigs ==
    { DocGroupChat,
      [enabled |-> TRUE, agentInteraction |-> TRUE, maxAgentChain |-> 2, chainThreshold |-> 50],
      [enabled |-> TRUE, agentInteraction |-> TRUE, maxAgentChain |-> 1, chainThreshold |-> 100],
      [enabled |-> TRUE, agentInteraction |-> TRUE, maxAgentChain |-> 0, chainThreshold |-> 100],
      [enabled |-> TRUE, agentInteraction |-> FALSE, maxAgentChain |-> 2, chainThreshold |-> 100],
      [enabled |-> FALSE, agentInteraction |-> TRUE, maxAgentChain |-> 2, chainThreshold |-> 100],
      [enabled |-> TRUE, agentInteraction |-> TRUE, maxAgentChain |-> 2, chainThreshold |-> 0] }

\* Math.random() in percent: a value of [0, 100)
DrawValues == {0, 50, 99}

HasAgent(ags, id) == \E i \in 1..Len(ags) : ags[i].id = id

\* Map.get(id)
AgentGet(ags, id) ==
    IF HasAgent(ags, id)
    THEN ags[CHOOSE i \in 1..Len(ags) : ags[i].id = id]
    ELSE Undefined

\* Map.set(id, agent): a known key keeps its position
AgentSet(ags, agent) ==
    IF HasAgent(ags, agent.id)
    THEN [i \in 1..Len(ags) |-> IF ags[i].id = agent.id THEN agent ELSE ags[i]]
    ELSE Append(ags, agent)

\* registerAgent(agent)
registerAgent(ags, dflt, provs, agent) ==
    [agents |-> AgentSet(ags, agent),
     defaultAgentId |-> IF agent.isDefault THEN agent.id ELSE dflt,
     llmProviders |-> IF agent.llmOverride # Null
                      THEN MapSet(provs, agent.id, agent.llmOverride)
                      ELSE provs]

\* createLLMProvider(this.llmConfig): a provider of the global configuration
DefaultProvider == "default"

\* getLLMProvider(agentId)
getLLMProvider(provs, agentId) ==
    IF agentId \in DOMAIN provs THEN provs[agentId] ELSE DefaultProvider

\* getDefaultAgent()
getDefaultAgent(ags, dflt) ==
    IF dflt # Null THEN AgentGet(ags, dflt)
    ELSE IF Len(ags) > 0 THEN ags[1] ELSE Undefined

\* the first agent, in registration order, one of whose triggers occurs in
\* the lower-cased content
TriggerHits(ags, content) ==
    {i \in 1..Len(ags) :
        \E t \in 1..Len(ags[i].triggers) :
            includes(toLowerCase(content), toLowerCase(ags[i].triggers[t]))}

\* the agents whose lower-cased name contains the lower-cased mention
MentionHits(ags, word) ==
    {i \in 1..Len(ags) : includes(toLowerCase(ags[i].name), toLowerCase(word))}

First(set) == CHOOSE i \in set : \A j \in set : i <= j
Latest(set) == CHOOSE i \in set : \A j \in set : i >= j

\* [...context].reverse().find(m => m.role === 'assistant')
LastAssistant(context) ==
    LET idx == {i \in 1..Len(context) : context[i].role = "assistant"}
    IN IF idx = {} THEN Undefined ELSE context[Latest(idx)]

\* selectAgent testing the @mention before the triggers
selectAgent_mentionFirst(ags, dflt, content, context) ==
    LET trig == TriggerHits(ags, content)
        m == atMatch(content)
        ment == IF m.found THEN MentionHits(ags, m.word) ELSE {}
        lastAssistant == LastAssistant(context)
    IN IF ment # {} THEN ags[First(ment)]
       ELSE IF trig # {} THEN ags[First(trig)]
       ELSE IF /\ lastAssistant # Undefined
               /\ lastAssistant.agentId # NoAgentId
               /\ HasAgent(ags, lastAssistant.agentId)
            THEN AgentGet(ags, lastAssistant.agentId)
       ELSE getDefaultAgent(ags, dflt)

\* selectAgent continuing with the first turn of the context instead of
\* the most recent assistant turn
selectAgent_oldestTurn(ags, dflt, content, context) ==
    LET trig == TriggerHits(ags, content)
        m == atMatch(content)
        ment == IF m.found THEN MentionHits(ags, m.word) ELSE {}
        lastAssistant == IF Len(context) > 0 /\ context[1].role = "assistant"
                         THEN context[1] ELSE Undefined
    IN IF trig # {} THEN ags[First(trig)]
       ELSE IF ment # {} THEN ags[First(ment)]
       ELSE IF /\ lastAssistant # Undefined
               /\ lastAssistant.agentId # NoAgentId
               /\ HasAgent(ags, lastAssistant.agentId)
            THEN AgentGet(ags, lastAssistant.agentId)
       ELSE getDefaultAgent(ags, dflt)

\* selectAgent(content, context)
selectAgent(ags, dflt, content, context) ==
    LET trig == TriggerHits(ags, content)
        m == atMatch(content)
        ment == IF m.found THEN MentionHits(ags, m.word) ELSE {}
        lastAssistant == LastAssistant(context)
    IN IF trig # {} THEN ags[First(trig)]
       ELSE IF ment # {} THEN ags[First(ment)]
       ELSE IF /\ lastAssistant # Undefined
               /\ lastAssistant.agentId # NoAgentId
               /\ HasAgent(ags, lastAssistant.agentId)
            THEN AgentGet(ags, lastAssistant.agentId)
       ELSE getDefaultAgent(ags, dflt)

\* the candidate patterns of one agent: @name, name, triggers
Patterns(agent) == << <<"@">> \o agent.name, agent.name >> \o agent.triggers

\* the (agent, pattern) pairs in the order the two loops visit them
RECURSIVE CandidatePairs(_, _, _)
CandidatePairs(ags, lastAgentId, i) ==
    IF i > Len(ags) THEN <<>>
    ELSE (IF ags[i].id = lastAgentId THEN <<>>
          ELSE [k \in 1..Len(Patterns(ags[i])) |->
                   [agent |-> ags[i], pattern |-> Patterns(ags[i])[k]]])
         \o CandidatePairs(ags, lastAgentId, i + 1)

\* the loops of shouldChainAgent from pair i on: every pattern found in the
\* response takes one Math.random() draw; `draws' logs them
RECURSIVE ChainWalk(_, _, _, _, _)
ChainWalk(pairs, gc, response, i, draws) ==
    IF i > Len(pairs)
    THEN {[shouldChain |-> FALSE, nextAgent |-> Undefined, draws |-> draws]}
    ELSE IF includes(toLowerCase(response), toLowerCase(pairs[i].pattern))
         THEN UNION {IF d < gc.chainThreshold
                     THEN {[shouldChain |-> TRUE, nextAgent |-> pairs[i].agent,
                            draws |-> Append(draws, [agentId |-> pairs[i].agent.id, hit |-> TRUE])]}
                     ELSE ChainWalk(pairs, gc, response, i + 1,
                                    Append(draws, [agentId |-> pairs[i].agent.id, hit |-> FALSE]))
                     : d \in DrawValues}
         ELSE ChainWalk(pairs, gc, response, i + 1, draws)

\* chainCount >= this.groupChatConfig.maxAgentChain: a configuration object
\* without the property gives undefined, and a number >= undefined is false
ReachedMaxChain(gc, chainCount) ==
    "maxAgentChain" \in DOMAIN gc /\ chainCount >= gc.maxAgentChain

\* shouldChainAgent comparing the depth with > instead of >=
shouldChainAgent_offByOne(ags, gc, lastAgentId, response, chainCount) ==
    IF ~gc.enabled \/ ~gc.agentInteraction
    THEN {[shouldChain |-> FALSE, nextAgent |-> Undefined, draws |-> <<>>]}
    ELSE IF chainCount > gc.maxAgentChain
    THEN {[shouldChain |-> FALSE, nextAgent |-> Undefined, draws |-> <<>>]}
    ELSE ChainWalk(CandidatePairs(ags, lastAgentId, 1), gc, response, 1, <<>>)

\* shouldChainAgent without the `continue' for the agent that just answered
shouldChainAgent_noSkip(ags, gc, lastAgentId, response, chainCount) ==
    IF ~gc.enabled \/ ~gc.agentInteraction
    THEN {[shouldChain |-> FALSE, nextAgent |-> Undefined, draws |-> <<>>]}
    ELSE IF ReachedMaxChain(gc, chainCount)
    THEN {[shouldChain |-> FALSE, nextAgent |-> Undefined, draws |-> <<>>]}
    ELSE ChainWalk(CandidatePairs(ags, Null, 1), gc, response, 1, <<>>)

\* shouldChainAgent(lastAgentId, response, chainCount): the results the
\* random draws can produce
shouldChainAgent(ags, gc, lastAgentId, response, chainCount) ==
    IF ~gc.enabled \/ ~gc.agentInteraction
    THEN {[shouldChain |-> FALSE, nextAgent |-> Undefined, draws |-> <<>>]}
    ELSE IF ReachedMaxChain(gc, chainCount)
    THEN {[shouldChain |-> FALSE, nextAgent |-> Undefined, draws |-> <<>>]}
    ELSE ChainWalk(CandidatePairs(ags, lastAgentId, 1), gc, response, 1, <<>>)

\* the turns a context passed to selectAgent is made of
ContextTurns ==
    {[role |-> "user", agentId |-> NoAgentId],
     [role |-> "assistant", agentId |-> NoAgentId],
     [role |-> "assistant", agentId |-> "ann"],
     [role |-> "assistant", agentId |-> "bob"],
     [role |-> "assistant", agentId |-> "zed"]}
Contexts == SeqsUpTo(ContextTurns, MaxContextLen)

----------------------------------------------------------------------------
(* Actions of AgentManager *)

RegisterAgent(agent) ==
    /\ LET r == registerAgent(agents, defaultAgentId, llmProviders, agent)
       IN /\ agents' = r.agents
          /\ defaultAgentId' = r.defaultAgentId
          /\ llmProviders' = r.llmProviders
    /\ last' = [op |-> "registerAgent", agent |-> agent]
    /\ UNCHANGED <<addCalls, permVars, memVars, plugins, ctxVars, groupChatConfig, engVars>>

\* selectAgent only reads the registry: a call right after another one
\* starts from the same registry, so one call per registry state is taken
SelectAgent(content, context) ==
    /\ last.op # "selectAgent"
    /\ last' = [op |-> "selectAgent", content |-> content, context |-> context,
                returned |-> selectAgent(agents, defaultAgentId, content, context)]
    /\ UNCHANGED <<addCalls, permVars, memVars, plugins, ctxVars, agentVars, engVars>>

\* getLLMProvider only reads the provider map (see SelectAgent)
GetLLMProvider(agentId) ==
    /\ last.op # "getLLMProvider"
    /\ last' = [op |-> "getLLMProvider", agentId |-> agentId,
                returned |-> getLLMProvider(llmProviders, agentId)]
    /\ UNCHANGED <<addCalls, permVars, memVars, plugins, ctxVars, agentVars, engVars>>

\* shouldChainAgent only reads the registry and the policy (see SelectAgent)
ShouldChainAgent(lastAgentId, response, chainCount) ==
    /\ last.op # "shouldChainAgent"
    /\ \E o \in shouldChainAgent(agents, groupChatConfig, lastAgentId, response, chainCount) :
         last' = [op |-> "shouldChainAgent", lastAgentId |-> lastAgentId,
                  response |-> response, chainCount |-> chainCount,
                  returned |-> [shouldChain |-> o.shouldChain, nextAgent |-> o.nextAgent],
                  draws |-> o.draws]
    /\ UNCHANGED <<addCalls, permVars, memVars, plugins, ctxVars, agentVars, engVars>>

----------------------------------------------------------------------------
(* Mem0Manager: the local memory store and the optional remote client *)

MaxRecords == 2      \* local memory records created per run
MaxLimit == 2        \* the limit argument of searchMemory

Users == {"u1", "u2"}

\* the six regular expressions of isImportantInfo, each the set of its
\* alternatives, every character written as its code point (u6211 u53EB
\* is the phrase "my name is"); none holds a cased letter, so the i flag
\* changes nothing
patterns ==
    << {<<"u6211", "u53EB">>, <<"u6211", "u7684", "u540D", "u5B57">>, <<"u6211", "u662F">>},
       {<<"u6211", "u559C", "u6B22">>, <<"u6211", "u8BA8", "u538C">>, <<"u6211", "u504F", "u597D">>},
       {<<"u6211", "u7684", "u5DE5", "u4F5C", "u662F">>, <<"u6211", "u662F", "u505A">>},
       {<<"u6211", "u4F4F">>, <<"u6211", "u5728">>, <<"u6211", "u7684", "u5730", "u5740">>},
       {<<"u8BB0", "u5F97">>, <<"u8BB0", "u4F4F">>, <<"u522B", "u5FD8", "u4E86">>},
       {<<"u91CD", "u8981">>, <<"u5173", "u952E">>, <<"u5FC5", "u987B">>} >>

\* patterns.some(p => p.test(content))
isImportantInfo(content) ==
    \E i \in DOMAIN patterns : \E alt \in patterns[i] : includes(content, alt)

IsWhitespace(c) == c = " "

\* String.prototype.split(/\s+/): the pieces between the maximal runs of
\* whitespace; a leading or trailing run yields an empty piece
RECURSIVE split(_)
split(str) ==
    LET ws == {i \in 1..Len(str) : IsWhitespace(str[i])}
    IN IF ws = {}
       THEN <<str>>
       ELSE LET i == CHOOSE k \in ws : \A m \in ws : k <= m
                j == CHOOSE e \in i..Len(str) :
                         /\ \A k \in i..e : IsWhitespace(str[k])
                         /\ (e = Len(str) \/ ~IsWhitespace(str[e + 1]))
            IN <<SubSeq(str, 1, i - 1)>> \o split(SubSeq(str, j + 1, Len(str)))

\* a score is the quotient num / den, den > 0
Zero == [num |-> 0, den |-> 1]
ScoreLess(a, b) == a.num * b.den < b.num * a.den
ScorePositive(a) == a.num > 0

\* calculateRelevance(content, queryWords)
calculateRelevance(content, queryWords) ==
    LET contentLower == toLowerCase(content)
        score == Cardinality({i \in 1..Len(queryWords) :
                                 includes(contentLower, queryWords[i])})
    IN IF Len(queryWords) > 0 THEN [num |-> score, den |-> Len(queryWords)] ELSE Zero

HasPositiveScore(m) == ScorePositive(m.score)

\* Array.prototype.sort((a, b) => b.score - a.score): stable, descending
RECURSIVE sortByScore(_)
sortByScore(seq) ==
    IF seq = <<>>
    THEN <<>>
    ELSE LET init == sortByScore(SubSeq(seq, 1, Len(seq) - 1))
             x == seq[Len(seq)]
             pos == Cardinality({i \in 1..Len(init) : ~ScoreLess(init[i].score, x.score)})
         IN SubSeq(init, 1, pos) \o <<x>> \o SubSeq(init, pos + 1, Len(init))

\* Array.prototype.slice(0, end)
slice0(seq, end) ==
    LET stop == IF end < 0 THEN Len(seq) + end ELSE Min(end, Len(seq))
    IN SubSeq(seq, 1, IF stop < 0 THEN 0 ELSE stop)

WithScore(m, queryWords) ==
    [id |-> m.id, content |-> m.content, userId |-> m.userId,
     metadata |-> m.metadata, score |-> calculateRelevance(m.content, queryWords)]

\* searchMemoryLocal scanning the records of every user
searchMemoryLocal_allUsers(store, query, userId, limit) ==
    LET owners == {u \in Users : u \in DOMAIN store}
        rest == owners \ {userId}
        memories == GetOrEmpty(store, userId)
                        \o (IF rest = {} THEN <<>> ELSE store[CHOOSE u \in rest : TRUE])
        queryWords == split(toLowerCase(query))
        scored == [i \in 1..Len(memories) |-> WithScore(memories[i], queryWords)]
    IN slice0(sortByScore(SelectSeq(scored, HasPositiveScore)), limit)

\* searchMemoryLocal(query, userId, limit)
searchMemoryLocal(store, query, userId, limit) ==
    LET memories == GetOrEmpty(store, userId)
        queryWords == split(toLowerCase(query))
        scored == [i \in 1..Len(memories) |-> WithScore(memories[i], queryWords)]
    IN slice0(sortByScore(SelectSeq(scored, HasPositiveScore)), limit)

IsImportantUserTurn(msg) == msg.role = "user" /\ isImportantInfo(msg.content)

\* addMemoryLocal keeping the important turns of every role
addMemoryLocal_allRoles(store, nextId, messages, userId, metadata) ==
    LET Important(msg) == isImportantInfo(msg.content)
        kept == SelectSeq(messages, Important)
        created == [i \in 1..Len(kept) |->
                       [id |-> nextId + i - 1, content |-> kept[i].content,
                        userId |-> userId, metadata |-> metadata]]
    IN [store |-> MapSet(store, userId, GetOrEmpty(store, userId) \o created),
        nextId |-> nextId + Len(kept)]

\* addMemoryLocal(messages, userId, metadata)
addMemoryLocal(store, nextId, messages, userId, metadata) ==
    LET kept == SelectSeq(messages, IsImportantUserTurn)
        created == [i \in 1..Len(kept) |->
                       [id |-> nextId + i - 1, content |-> kept[i].content,
                        userId |-> userId, metadata |-> metadata]]
    IN [store |-> MapSet(store, userId, GetOrEmpty(store, userId) \o created),
        nextId |-> nextId + Len(kept)]

\* the local branch of deleteMemory(memoryId): the first record carrying
\* the id is spliced out of the list that holds it
deleteMemoryLocal(store, memoryId) ==
    LET holders == {u \in DOMAIN store : \E i \in 1..Len(store[u]) : store[u][i].id = memoryId}
    IN IF holders = {}
       THEN store
       ELSE LET u == CHOOSE x \in holders : TRUE
                index == CHOOSE i \in 1..Len(store[u]) :
                             /\ store[u][i].id = memoryId
                             /\ \A k \in 1..(i - 1) : store[u][k].id # memoryId
            IN [store EXCEPT ![u] = SubSeq(@, 1, index - 1) \o SubSeq(@, index + 1, Len(@))]

\* this.config.localMode || !this.client
UsesLocal == mem0Config.localMode \/ client = Null

\* what a call of the remote client can do: resolve with a well-formed
\* value, resolve with a value that is no array, or reject
RemoteOutcomes == {"ok", "malformed", "throws"}
Outcomes == IF UsesLocal THEN {"none"} ELSE RemoteOutcomes

\* the remote result of search / getAll mapped to Memory records
RemoteMemory(userId) ==
    [id |-> "remote", content |-> <<"a">>, userId |-> userId,
     score |-> [num |-> 1, den |-> 1]]
RemoteResults(userId) == {<<>>, <<RemoteMemory(userId)>>}

\* texts of the turns handed to addMemory
LiveInTokyo ==
    <<"I", " ", "l", "i", "v", "e", " ", "i", "n", " ", "T", "o", "k", "y", "o">>
NiceWeather ==
    <<"n", "i", "c", "e", " ", "w", "e", "a", "t", "h", "e", "r", " ",
      "t", "o", "d", "a", "y">>
LiveInTokyoZh == <<"u6211", "u4F4F", "u5728", "a">>
RememberZh == <<"u8BB0", "u4F4F", " ", "B", " ", "a">>
MemTexts == {LiveInTokyo, NiceWeather, LiveInTokyoZh, RememberZh}

Turn(role, content) == [role |-> role, content |-> content]
MemTurns ==
    {Turn("user", t) : t \in MemTexts}
        \cup {Turn("assistant", LiveInTokyoZh), Turn("system", RememberZh)}
\* the turn lists handed to addMemory: none, one turn, or one of three pairs
MemMessages ==
    {<<>>} \cup {<<t>> : t \in MemTurns}
        \cup {<<Turn("user", LiveInTokyoZh), Turn("user", RememberZh)>>,
              <<Turn("user", NiceWeather), Turn("user", LiveInTokyoZh)>>,
              <<Turn("assistant", RememberZh), Turn("user", RememberZh)>>}
NoMetadata == "undefined"
Metadatas == {NoMetadata, "meta"}
MemQueries ==
    {<<>>, <<"a">>, <<"B">>, <<"a", " ", "B">>, <<" ", "a">>, <<"B", " ">>,
     <<"a", " ", "@">>, <<"@">>}
MemoryIds == 1..MaxRecords

\* new Mem0Manager(config)
InitMemory ==
    /\ mem0Config = [localMode |-> TRUE]
    /\ client = Null
    /\ initClientPc = "none"
    /\ localStore = <<>>
    /\ nextMemoryId = 1

\* new Mem0Manager({localMode: false, apiKey}): initClient has been called
\* and is waiting for the SDK import
InitMemoryRemote ==
    /\ mem0Config = [localMode |-> FALSE]
    /\ client = Null
    /\ initClientPc = "import"
    /\ localStore = <<>>
    /\ nextMemoryId = 1

\* initClient after the import settled: the client is built, or the SDK is
\* missing and the manager turns to local mode
InitClient(found) ==
    /\ initClientPc = "import"
    /\ initClientPc' = "done"
    /\ client' = IF found THEN "mem0" ELSE Null
    /\ mem0Config' = IF found THEN mem0Config ELSE [localMode |-> TRUE]
    /\ last' = [op |-> "initClient", found |-> found]
    /\ UNCHANGED <<addCalls, permVars, localStore, nextMemoryId, plugins, ctxVars, agentVars, engVars>>

\* addMemory(messages, userId, metadata)
AddMemory(messages, userId, metadata, outcome) ==
    LET r == addMemoryLocal(localStore, nextMemoryId, messages, userId, metadata)
        local == outcome \in {"none", "throws"}
    IN /\ outcome \in Outcomes
       /\ r.nextId - 1 <= MaxRecords
       /\ localStore' = IF local THEN r.store ELSE localStore
       /\ nextMemoryId' = IF local THEN r.nextId ELSE nextMemoryId
       /\ last' = [op |-> "addMemory", user |-> userId, messages |-> messages,
                   metadata |-> metadata, remote |-> outcome, local |-> local]
       /\ UNCHANGED <<addCalls, permVars, mem0Config, client, initClientPc, plugins, ctxVars, agentVars, engVars>>

\* searchMemory(query, userId, limit)
SearchMemory(query, userId, limit, outcome, remoteResult) ==
    LET local == outcome \in {"none", "throws", "malformed"}
    IN /\ outcome \in Outcomes
       /\ last.op # "searchMemory"
       /\ local => remoteResult = <<>>
       /\ last' = [op |-> "searchMemory", user |-> userId, query |-> query,
                   limit |-> limit, remote |-> outcome, local |-> local,
                   returned |-> IF local
                                THEN searchMemoryLocal(localStore, query, userId, limit)
                                ELSE remoteResult]
       /\ UNCHANGED <<addCalls, permVars, memVars, plugins, ctxVars, agentVars, engVars>>

\* getAllMemories(userId)
GetAllMemories(userId, outcome, remoteResult) ==
    LET local == outcome \in {"none", "throws", "malformed"}
    IN /\ outcome \in Outcomes
       /\ last.op # "getAllMemories"
       /\ local => remoteResult = <<>>
       /\ last' = [op |-> "getAllMemories", user |-> userId,
                   remote |-> outcome, local |-> local,
                   returned |-> IF local THEN GetOrEmpty(localStore, userId)
                                ELSE remoteResult]
       /\ UNCHANGED <<addCalls, permVars, memVars, plugins, ctxVars, agentVars, engVars>>

\* deleteMemory(memoryId): with a client the deletion is sent to the remote
\* service only; a rejection is logged
DeleteMemory(memoryId, outcome) ==
    LET local == outcome = "none"
    IN /\ outcome \in Outcomes
       /\ localStore' = IF local THEN deleteMemoryLocal(localStore, memoryId) ELSE localStore
       /\ last' = [op |-> "deleteMemory", memoryId |-> memoryId,
                   remote |-> outcome, local |-> local]
       /\ UNCHANGED <<addCalls, permVars, mem0Config, client, initClientPc, nextMemoryId, plugins,
                      ctxVars, agentVars, engVars>>

----------------------------------------------------------------------------
(* ChatBotEngine: handleIncomingMessage and sendMessageWithPossibleChain *)

MaxMessages == 1    \* incoming messages per run, one at a time
MaxConcurrent == 2  \* incoming messages per run when two can be in flight

Handlers == {"h1", "h2"}
\* the invocation used when messages arrive one after the other
OneAtATime == {"h1"}
EngineSession == "s1"
EngineUser == "u1"

\* the limit buildContext passes to searchMemory
BuildContextLimit == 5

\* this.agentManager is set: the engine builds it only for a non-empty list
HasAgentManager == agents # <<>>

\* HybridMemoryManager.buildContext(messages, userId, currentQuery) with the
\* memory manager in local mode
buildContext(store, nextId, messages, userId, currentQuery) ==
    LET relevantMemories == searchMemoryLocal(store, currentQuery, userId, BuildContextLimit)
        a == IF Len(messages) > 0
             THEN addMemoryLocal(store, nextId, messages, userId, NoMetadata)
             ELSE [store |-> store, nextId |-> nextId]
    IN [store |-> a.store, nextId |-> a.nextId, relevantMemories |-> relevantMemories]

\* the agent list the engine is constructed with
EngineAgents == <<Ann, Bob, Cy>>

\* the texts of incoming messages and of LLM responses
EngineTexts == {<<"@">>, <<"B", "a">>, <<"@", "B">>, <<" ">>}

\* the texts used when two messages are in flight
ConcurrentTexts == {<<"B", "a">>, <<" ">>}

\* the constructor's loop over the agent list
RECURSIVE RegisterAll(_, _, _)
RegisterAll(list, i, reg) ==
    IF i > Len(list) THEN reg
    ELSE RegisterAll(list, i + 1,
                     registerAgent(reg.agents, reg.defaultAgentId, reg.llmProviders, list[i]))

EmptyRegistry == [agents |-> <<>>, defaultAgentId |-> Null, llmProviders |-> <<>>]

IdleHandler ==
    [pc |-> "idle", content |-> <<>>, isGroup |-> FALSE, lastAgentId |-> NoAgentId,
     nextAgentId |-> NoAgentId, chainCount |-> 0, chainCalls |-> 0,
     sent |-> 0, errors |-> 0, userTurn |-> 0, steps |-> <<>>]

\* the turn the engine hands to addMessage
EngineMessage(n, role, content, agentId) ==
    [id |-> n, sessionId |-> EngineSession, role |-> role, content |-> content,
     agentId |-> agentId]

\* sendMessageWithPossibleChain up to its first suspension after the send:
\* the handler states the chaining decision can lead to
SendWithPossibleChain(e, lastAgentId, response, chainCount) ==
    {IF o.shouldChain /\ o.nextAgent # Undefined
     THEN [e EXCEPT !.pc = "delay", !.sent = @ + 1, !.lastAgentId = lastAgentId,
                    !.nextAgentId = o.nextAgent.id, !.chainCount = chainCount,
                    !.steps = @ \o <<"addAssistant", "send", "shouldChainAgent">>]
     ELSE [e EXCEPT !.pc = "done", !.sent = @ + 1, !.lastAgentId = lastAgentId,
                    !.nextAgentId = NoAgentId, !.chainCount = chainCount,
                    !.steps = @ \o <<"addAssistant", "send", "shouldChainAgent">>]
     : o \in shouldChainAgent(agents, groupChatConfig, lastAgentId, response, chainCount)}

\* handleIncomingMessage from the user turn to the LLM call: with an agent
\* manager the agent is selected, without one the memory context is built
HandleIncomingBounded(h, content, isGroup, bound) ==
    /\ eng[h].pc = "idle"
    /\ received < bound
    /\ LET n == appended[EngineSession] + 1
           r == addMessage(config, shortTermMemory, summaries, EngineSession,
                           EngineMessage(n, "user", content, NoAgentId))
           messages == getContext(r.mem, r.sums, EngineSession).returned
           selectedAgent == selectAgent(agents, defaultAgentId, content, messages)
           memContext == buildContext(localStore, nextMemoryId, messages, EngineUser, content)
       IN /\ shortTermMemory' = r.mem
          /\ summaries' = r.sums
          /\ IF HasAgentManager
             THEN /\ eng' = [eng EXCEPT ![h] =
                              [IdleHandler EXCEPT !.pc = "llm", !.content = content,
                                                  !.isGroup = isGroup,
                                                  !.lastAgentId = selectedAgent.id,
                                                  !.userTurn = n,
                                                  !.steps = <<"addUser", "selectAgent", "chat">>]]
                  /\ UNCHANGED <<localStore, nextMemoryId>>
             ELSE /\ eng' = [eng EXCEPT ![h] =
                              [IdleHandler EXCEPT !.pc = "llm", !.content = content,
                                                  !.isGroup = isGroup,
                                                  !.userTurn = n,
                                                  !.steps = <<"addUser", "buildContext", "chat">>]]
                  /\ localStore' = memContext.store
                  /\ nextMemoryId' = memContext.nextId
    /\ appended' = [appended EXCEPT ![EngineSession] = @ + 1]
    /\ received' = received + 1
    /\ last' = [op |-> "handleIncomingMessage", handler |-> h]
    /\ UNCHANGED <<addCalls, permVars, mem0Config, client, initClientPc, plugins, config, nonUser, agentVars>>

HandleIncomingMessage(h, content, isGroup) ==
    HandleIncomingBounded(h, content, isGroup, MaxMessages)

\* llmProvider.chat resolves, with the assistant turn put right behind the
\* user turn it answers instead of at the end of the window
LlmReturns_paired(h, response) ==
    /\ eng[h].pc = "llm"
    /\ LET n == appended[EngineSession] + 1
           w == GetOrEmpty(shortTermMemory, EngineSession)
           own == {i \in 1..Len(w) : w[i].id = eng[h].userTurn}
           at == IF own = {} THEN Len(w) ELSE CHOOSE i \in own : TRUE
           reply == EngineMessage(n, "assistant", response, eng[h].lastAgentId)
       IN /\ shortTermMemory' = MapSet(shortTermMemory, EngineSession,
                                       SubSeq(w, 1, at) \o <<reply>> \o SubSeq(w, at + 1, Len(w)))
          /\ summaries' = summaries
    /\ appended' = [appended EXCEPT ![EngineSession] = @ + 1]
    /\ IF eng[h].isGroup /\ HasAgentManager /\ groupChatConfig.agentInteraction
       THEN \E e \in SendWithPossibleChain(eng[h], eng[h].lastAgentId, response, 0) :
                eng' = [eng EXCEPT ![h] = e]
       ELSE eng' = [eng EXCEPT ![h].pc = "done", ![h].sent = @ + 1,
                               ![h].steps = @ \o <<"addAssistant", "send">>]
    /\ last' = [op |-> "llmReturns", handler |-> h, response |-> response]
    /\ UNCHANGED <<addCalls, permVars, memVars, plugins, config, nonUser, agentVars, received>>

\* llmProvider.chat resolves: the assistant turn is appended and the reply
\* sent, through sendMessageWithPossibleChain in a group chat
LlmReturns(h, response) ==
    /\ eng[h].pc = "llm"
    /\ LET n == appended[EngineSession] + 1
           r == addMessage(config, shortTermMemory, summaries, EngineSession,
                           EngineMessage(n, "assistant", response, eng[h].lastAgentId))
       IN /\ shortTermMemory' = r.mem
          /\ summaries' = r.sums
    /\ appended' = [appended EXCEPT ![EngineSession] = @ + 1]
    /\ IF eng[h].isGroup /\ HasAgentManager /\ groupChatConfig.agentInteraction
       THEN \E e \in SendWithPossibleChain(eng[h], eng[h].lastAgentId, response, 0) :
                eng' = [eng EXCEPT ![h] = e]
       ELSE eng' = [eng EXCEPT ![h].pc = "done", ![h].sent = @ + 1,
                               ![h].steps = @ \o <<"addAssistant", "send">>]
    /\ last' = [op |-> "llmReturns", handler |-> h, response |-> response]
    /\ UNCHANGED <<addCalls, permVars, memVars, plugins, config, nonUser, agentVars, received>>

\* the one-second delay is over: the context is read and the next agent's
\* LLM is called
DelayElapsed(h) ==
    /\ eng[h].pc = "delay"
    /\ eng' = [eng EXCEPT ![h].pc = "chainLlm", ![h].chainCalls = @ + 1,
                          ![h].steps = @ \o <<"chat">>]
    /\ last' = [op |-> "chainLlmCall", handler |-> h,
                messages |-> getContext(shortTermMemory, summaries, EngineSession).returned]
    /\ UNCHANGED <<addCalls, permVars, memVars, plugins, ctxVars, agentVars, received>>

\* the chained chat resolves and the recursion is entered with chainCount
\* instead of chainCount + 1
ChainLlmReturns_sameDepth(h, response) ==
    /\ eng[h].pc = "chainLlm"
    /\ LET n == appended[EngineSession] + 1
           r == addMessage(config, shortTermMemory, summaries, EngineSession,
                           EngineMessage(n, "assistant", response, eng[h].nextAgentId))
       IN /\ shortTermMemory' = r.mem
          /\ summaries' = r.sums
    /\ appended' = [appended EXCEPT ![EngineSession] = @ + 1]
    /\ \E e \in SendWithPossibleChain(eng[h], eng[h].nextAgentId, response,
                                       eng[h].chainCount) :
           eng' = [eng EXCEPT ![h] = e]
    /\ last' = [op |-> "chainLlmReturns", handler |-> h, response |-> response]
    /\ UNCHANGED <<addCalls, permVars, memVars, plugins, config, nonUser, agentVars, received>>

\* the chained chat resolves: the turn is appended and the recursion sends
\* it and decides again with chainCount + 1
ChainLlmReturns(h, response) ==
    /\ eng[h].pc = "chainLlm"
    /\ LET n == appended[EngineSession] + 1
           r == addMessage(config, shortTermMemory, summaries, EngineSession,
                           EngineMessage(n, "assistant", response, eng[h].nextAgentId))
       IN /\ shortTermMemory' = r.mem
          /\ summaries' = r.sums
    /\ appended' = [appended EXCEPT ![EngineSession] = @ + 1]
    /\ \E e \in SendWithPossibleChain(eng[h], eng[h].nextAgentId, response,
                                       eng[h].chainCount + 1) :
           eng' = [eng EXCEPT ![h] = e]
    /\ last' = [op |-> "chainLlmReturns", handler |-> h, response |-> response]
    /\ UNCHANGED <<addCalls, permVars, memVars, plugins, config, nonUser, agentVars, received>>

\* a chat call rejects, with a catch block of its own in every chain hop
\* that reports the failure and rethrows it to handleIncomingMessage
LlmFails_perHop(h) ==
    /\ eng[h].pc \in {"llm", "chainLlm"}
    /\ eng' = [eng EXCEPT ![h].pc = "done",
                          ![h].errors = IF eng[h].pc = "chainLlm" THEN @ + 2 ELSE @ + 1]
    /\ last' = [op |-> "llmFails", handler |-> h]
    /\ UNCHANGED <<addCalls, permVars, memVars, plugins, ctxVars, agentVars, received>>

\* a chat call rejects: the catch block of handleIncomingMessage reports it
LlmFails(h) ==
    /\ eng[h].pc \in {"llm", "chainLlm"}
    /\ eng' = [eng EXCEPT ![h].pc = "done", ![h].errors = @ + 1]
    /\ last' = [op |-> "llmFails", handler |-> h]
    /\ UNCHANGED <<addCalls, permVars, memVars, plugins, ctxVars, agentVars, received>>

\* handleIncomingMessage has returned
HandlerReturns(h) ==
    /\ eng[h].pc = "done"
    /\ eng' = [eng EXCEPT ![h] = IdleHandler]
    /\ last' = [op |-> "handlerReturns", handler |-> h]
    /\ UNCHANGED <<addCalls, permVars, memVars, plugins, ctxVars, agentVars, received>>

----------------------------------------------------------------------------
(* PluginManager *)

MaxPlugins == 3      \* registerPlugin calls per run

\* the messages handed to processMessage
PluginContents == {"/help", "/echo hi", "hi"}
Throws == "throws"

\* a plugin: its priority, the contents its shouldHandle accepts, and what
\* its handle does with a content: a reply, null, or an exception
PluginDef(name, priority, accepts, outcome) ==
    [name |-> name, priority |-> priority,
     shouldHandle |-> [c \in PluginContents |-> c \in accepts],
     handle |-> [c \in PluginContents |-> outcome]]

HelpPlugin == PluginDef("help", 99, {"/help"}, "help text")
EchoPlugin == PluginDef("echo", 100, {"/echo hi"}, "hi")
BrokenPlugin == PluginDef("broken", 1, PluginContents, Throws)
SilentPlugin == PluginDef("silent", 99, PluginContents, Null)
LatePlugin == PluginDef("late", 100, {"/help", "/echo hi"}, "late reply")
PluginDefs == {HelpPlugin, EchoPlugin, BrokenPlugin, SilentPlugin, LatePlugin}

\* the plugin object handed to the n-th registerPlugin call
PluginObject(def, n) ==
    [name |-> def.name, priority |-> def.priority, shouldHandle |-> def.shouldHandle,
     handle |-> def.handle, registered |-> n]

\* Array.prototype.sort((a, b) => a.priority - b.priority): stable, ascending
RECURSIVE sortByPriority(_)
sortByPriority(seq) ==
    IF seq = <<>>
    THEN <<>>
    ELSE LET init == sortByPriority(SubSeq(seq, 1, Len(seq) - 1))
             x == seq[Len(seq)]
             pos == Cardinality({i \in 1..Len(init) : init[i].priority <= x.priority})
         IN SubSeq(init, 1, pos) \o <<x>> \o SubSeq(init, pos + 1, Len(init))

\* registerPlugin keeping the order of the calls
registerPlugin_noSort(list, plugin) == Append(list, plugin)

\* registerPlugin(plugin)
registerPlugin(list, plugin) == sortByPriority(Append(list, plugin))

\* processMessage(content, session) from the i-th plugin on
RECURSIVE processFrom(_, _, _)
processFrom(list, content, i) ==
    IF i > Len(list)
    THEN Null
    ELSE IF /\ list[i].shouldHandle[content]
            /\ list[i].handle[content] # Throws
            /\ list[i].handle[content] # Null
         THEN list[i].handle[content]
         ELSE processFrom(list, content, i + 1)

processMessage(list, content) == processFrom(list, content, 1)

RegisterPlugin(def) ==
    /\ Len(plugins) < MaxPlugins
    /\ plugins' = registerPlugin(plugins, PluginObject(def, Len(plugins) + 1))
    /\ last' = [op |-> "registerPlugin", plugin |-> def.name]
    /\ UNCHANGED <<addCalls, permVars, memVars, ctxVars, agentVars, engVars>>

GetPlugins ==
    /\ last.op # "getPlugins"
    /\ last' = [op |-> "getPlugins", returned |-> plugins]
    /\ UNCHANGED <<addCalls, permVars, memVars, plugins, ctxVars, agentVars, engVars>>

ProcessMessage(content) ==
    /\ last.op # "processMessage"
    /\ last' = [op |-> "processMessage", content |-> content,
                returned |-> processMessage(plugins, content)]
    /\ UNCHANGED <<addCalls, permVars, memVars, plugins, ctxVars, agentVars, engVars>>


----------------------------------------------------------------------------
(* Actions of the store API *)

----------------------------------------------------------------------------
(* PermissionManager: checkRateLimit *)

MaxTicks == 3        \* the clock runs up to MaxTicks reset periods

\* the age in milliseconds after which a call resets the three counters
ResetAfterMs == 60000
\* the seconds of the hour and of the day, as the retryAfter values use them
HourSeconds == 3600
DaySeconds == 86400

\* `${user.platform}:${user.id}` of the one user checked
RateKey == "qq:u1"

\* rateLimit of the preset role guest, and of two roles added with addRole;
\* messagesPerMinute = 0 switches the per-minute check off
RateLimits ==
    { [messagesPerMinute |-> 3, messagesPerHour |-> 30, messagesPerDay |-> 100],
      [messagesPerMinute |-> 1, messagesPerHour |-> 2, messagesPerDay |-> 3],
      [messagesPerMinute |-> 0, messagesPerHour |-> 1, messagesPerDay |-> 1] }

\* the steps of the clock between calls, in milliseconds
TickValues == {59000, 60001}

\* checkRateLimit(user) at time t for a role with rate limit rl (Undefined
\* for a role without one)
checkRateLimit(rl, mc, key, t) ==
    IF rl = Undefined
    THEN [messageCounts |-> mc, returned |-> [allowed |-> TRUE]]
    ELSE LET fresh == key \notin DOMAIN mc \/ t - mc[key].lastReset > ResetAfterMs
             counts == IF fresh
                       THEN [minute |-> 0, hour |-> 0, day |-> 0, lastReset |-> t]
                       ELSE mc[key]
             mc1 == IF fresh THEN MapSet(mc, key, counts) ELSE mc
             elapsed == (t - counts.lastReset) \div 1000
         IN IF rl.messagesPerMinute > 0 /\ counts.minute >= rl.messagesPerMinute
            THEN [messageCounts |-> mc1,
                  returned |-> [allowed |-> FALSE, retryAfter |-> 60 - elapsed,
                                reason |-> "minute"]]
            ELSE IF rl.messagesPerHour > 0 /\ counts.hour >= rl.messagesPerHour
            THEN [messageCounts |-> mc1,
                  returned |-> [allowed |-> FALSE, retryAfter |-> HourSeconds - elapsed,
                                reason |-> "hour"]]
            ELSE IF rl.messagesPerDay > 0 /\ counts.day >= rl.messagesPerDay
            THEN [messageCounts |-> mc1,
                  returned |-> [allowed |-> FALSE, retryAfter |-> DaySeconds - elapsed,
                                reason |-> "day"]]
            ELSE [messageCounts |->
                      MapSet(mc1, key, [counts EXCEPT !.minute = @ + 1, !.hour = @ + 1,
                                                      !.day = @ + 1]),
                  returned |-> [allowed |-> TRUE]]

\* new PermissionManager(): no counters yet; the clock starts at 0
InitPermissionsFor(rl) ==
    /\ rateLimit = rl
    /\ messageCounts = <<>>
    /\ now = 0
    /\ allowedAt = <<>>

InitPermissions == InitPermissionsFor(Undefined)

CheckRateLimit ==
    /\ LET r == checkRateLimit(rateLimit, messageCounts, RateKey, now)
       IN /\ messageCounts' = r.messageCounts
          /\ allowedAt' = IF r.returned.allowed THEN Append(allowedAt, now) ELSE allowedAt
          /\ last' = [op |-> "checkRateLimit", returned |-> r.returned]
    /\ UNCHANGED <<addCalls, rateLimit, now, memVars, plugins, ctxVars, agentVars, engVars>>

\* time passes between two calls
Tick(d) ==
    /\ now + d <= MaxTicks * ResetAfterMs + MaxTicks
    /\ now' = now + d
    /\ last' = [op |-> "tick"]
    /\ UNCHANGED <<addCalls, rateLimit, messageCounts, allowedAt, memVars, plugins, ctxVars,
                   agentVars, engVars>>

----------------------------------------------------------------------------
(* ContextManager.addMessage, call by call, with the suspension at its await *)

MaxCalls == 10       \* addMessage calls started in one interleaved run

CallIds == 1..MaxCalls

\* a call is "idle" (not started), "suspended" at the await of
\* compressHistory, or "returned"; `held' tells whether its local
\* `messages' is still the array the map holds for the session
NoCalls == [c \in CallIds |-> [pc |-> "idle", held |-> FALSE]]

\* addMessage(EngineSession, turn) up to the await: the push and the
\* compaction check.  Below the threshold there is no await, and the trim
\* and the return follow at once.  At the threshold compressHistory runs to
\* its end and then the call is suspended; when compressHistory stored a new
\* array, every suspended call (this one too) is left with the old one.
AddStart(c, role) ==
    /\ addCalls[c].pc = "idle"
    /\ \A k \in CallIds : k < c => addCalls[k].pc # "idle"
    /\ LET n == appended[EngineSession] + 1
           messages == Append(GetOrEmpty(shortTermMemory, EngineSession),
                              FullMessage(EngineSession, role, n))
           mem1 == MapSet(shortTermMemory, EngineSession, messages)
       IN IF Len(messages) >= config.compressThreshold
          THEN LET r == compressHistory(mem1, summaries, EngineSession)
               IN /\ shortTermMemory' = r.mem
                  /\ summaries' = r.sums
                  /\ addCalls' = [k \in CallIds |->
                        IF k = c THEN [pc |-> "suspended", held |-> ~r.replaced]
                        ELSE IF r.replaced THEN [addCalls[k] EXCEPT !.held = FALSE]
                        ELSE addCalls[k]]
          ELSE /\ shortTermMemory' =
                     MapSet(mem1, EngineSession,
                            IF Len(messages) > config.shortTermWindow
                            THEN Tail(messages) ELSE messages)
               /\ summaries' = summaries
               /\ addCalls' = [addCalls EXCEPT ![c] = [pc |-> "returned", held |-> FALSE]]
    /\ appended' = [appended EXCEPT ![EngineSession] = @ + 1]
    /\ last' = [op |-> "addStart", call |-> c]
    /\ UNCHANGED <<permVars, memVars, plugins, config, nonUser, agentVars, engVars>>

\* the call resumes after the await: the trim acts on the array the call
\* holds, which changes the window only when the map still holds that array
\* (an array the map dropped is at least as long, and shifting it is not
\* seen by anyone)
AddResume(c) ==
    /\ addCalls[c].pc = "suspended"
    /\ LET messages == GetOrEmpty(shortTermMemory, EngineSession)
       IN shortTermMemory' =
              IF addCalls[c].held /\ Len(messages) > config.shortTermWindow
              THEN MapSet(shortTermMemory, EngineSession, Tail(messages))
              ELSE shortTermMemory
    /\ addCalls' = [addCalls EXCEPT ![c] = [pc |-> "returned", held |-> FALSE]]
    /\ last' = [op |-> "addResume", call |-> c]
    /\ UNCHANGED <<permVars, memVars, plugins, config, summaries, appended, nonUser,
                   agentVars, engVars>>

AddMessageBounded(s, role, bound) ==
    /\ appended[s] < bound
    /\ role # "user" => nonUser < MaxNonUser
    /\ LET n == appended[s] + 1
           r == addMessage(config, shortTermMemory, summaries, s, FullMessage(s, role, n))
       IN /\ shortTermMemory' = r.mem
          /\ summaries' = r.sums
          /\ last' = [op |-> "addMessage", session |-> s, returned |-> r.returned]
    /\ appended' = [appended EXCEPT ![s] = @ + 1]
    /\ nonUser' = IF role = "user" THEN nonUser ELSE nonUser + 1
    /\ UNCHANGED <<addCalls, permVars, memVars, plugins, config, agentVars, engVars>>

AddMessage(s, role) == AddMessageBounded(s, role, AddBound(s))

GetContext(s) ==
    /\ LET r == getContext(shortTermMemory, summaries, s)
       IN /\ shortTermMemory' = r.mem
          /\ summaries' = r.sums
          /\ last' = [op |-> "getContext", session |-> s, returned |-> r.returned]
    /\ UNCHANGED <<addCalls, permVars, memVars, plugins, config, appended, nonUser, agentVars, engVars>>

ClearContext(s) ==
    /\ LET r == clearContext(shortTermMemory, summaries, s)
       IN /\ shortTermMemory' = r.mem
          /\ summaries' = r.sums
    /\ appended' = [appended EXCEPT ![s] = 0]
    /\ last' = [op |-> "clearContext", session |-> s]
    /\ UNCHANGED <<addCalls, permVars, memVars, plugins, config, nonUser, agentVars, engVars>>

GetStats(s) ==
    /\ last' = [op |-> "getStats", session |-> s,
                returned |-> getStats(shortTermMemory, summaries, s)]
    /\ UNCHANGED <<addCalls, permVars, memVars, plugins, ctxVars, agentVars, engVars>>

\* ChatBotEngine.clearSession(sessionId): the session entry and the context
\* are dropped; handlers that are suspended keep running
ClearSession ==
    /\ LET r == clearContext(shortTermMemory, summaries, EngineSession)
       IN /\ shortTermMemory' = r.mem
          /\ summaries' = r.sums
    /\ appended' = [appended EXCEPT ![EngineSession] = 0]
    /\ last' = [op |-> "clearSession", session |-> EngineSession]
    /\ UNCHANGED <<addCalls, permVars, memVars, plugins, config, nonUser, agentVars, engVars>>

InitStore ==
    /\ shortTermMemory = <<>>
    /\ summaries = <<>>
    /\ appended = [s \in Sessions |-> 0]
    /\ nonUser = 0
    /\ last = NoOp

\* new AgentManager([], groupChat, llm)
InitRegistry ==
    /\ agents = <<>>
    /\ defaultAgentId = Null
    /\ llmProviders = <<>>

\* no message is being handled
InitEngine ==
    /\ eng = [h \in Handlers |-> IdleHandler]
    /\ received = 0

Init ==
    /\ config \in Configs
    /\ InitStore
    /\ InitRegistry
    /\ InitEngine
    /\ InitMemory
    /\ InitPermissions
    /\ addCalls = NoCalls
    /\ plugins = <<>>
    /\ groupChatConfig = DocGroupChat

Next ==
    \/ \E s \in Sessions, role \in Roles : AddMessage(s, role)
    \/ \E s \in Sessions : GetContext(s)
    \/ \E s \in Sessions : ClearContext(s)
    \/ \E s \in Sessions : GetStats(s)

Spec == Init /\ [][Next]_vars

\* the store under the documented configuration, long runs on session s1
DocBound(s) == IF s = "s1" THEN MaxDocAdds ELSE MaxOtherAdds

InitDoc ==
    /\ config = DocConfig
    /\ InitStore
    /\ InitRegistry
    /\ InitEngine
    /\ InitMemory
    /\ InitPermissions
    /\ addCalls = NoCalls
    /\ plugins = <<>>
    /\ groupChatConfig = DocGroupChat

NextDoc ==
    \/ \E s \in Sessions, role \in Roles : AddMessageBounded(s, role, DocBound(s))
    \/ \E s \in Sessions : GetContext(s)
    \/ \E s \in Sessions : ClearContext(s)
    \/ \E s \in Sessions : GetStats(s)

SpecDoc == InitDoc /\ [][NextDoc]_vars

\* the agent registry and selectAgent
InitSelect ==
    /\ config = DocConfig
    /\ InitStore
    /\ InitRegistry
    /\ InitEngine
    /\ InitMemory
    /\ InitPermissions
    /\ addCalls = NoCalls
    /\ plugins = <<>>
    /\ groupChatConfig = DocGroupChat

NextSelect ==
    \/ \E agent \in AgentDefs : RegisterAgent(agent)
    \/ \E content \in Contents, context \in Contexts : SelectAgent(content, context)

SpecSelect == InitSelect /\ [][NextSelect]_vars

\* the agent registry and its providers
NextProviders ==
    \/ \E agent \in AgentDefs : RegisterAgent(agent)
    \/ \E id \in AgentIds : GetLLMProvider(id)

SpecProviders == InitSelect /\ [][NextProviders]_vars

\* the agent registry and shouldChainAgent under each group-chat policy
InitChain ==
    /\ config = DocConfig
    /\ InitStore
    /\ InitRegistry
    /\ InitEngine
    /\ InitMemory
    /\ InitPermissions
    /\ addCalls = NoCalls
    /\ plugins = <<>>
    /\ groupChatConfig \in GroupChatConfigs

NextChain ==
    \/ \E agent \in AgentDefs : RegisterAgent(agent)
    \/ \E id \in AgentIds, response \in Contents, chainCount \in 0..MaxChainCount :
           ShouldChainAgent(id, response, chainCount)

SpecChain == InitChain /\ [][NextChain]_vars

\* group-chat policies whose object carries no maxAgentChain
UnboundedGroupChats ==
    { [enabled |-> TRUE, agentInteraction |-> TRUE, chainThreshold |-> 50],
      [enabled |-> TRUE, agentInteraction |-> TRUE, chainThreshold |-> 100] }

\* the agent registry and shouldChainAgent under such a policy
InitUnbounded ==
    /\ config = DocConfig
    /\ InitStore
    /\ InitRegistry
    /\ InitEngine
    /\ InitMemory
    /\ InitPermissions
    /\ addCalls = NoCalls
    /\ plugins = <<>>
    /\ groupChatConfig \in UnboundedGroupChats

SpecUnbounded == InitUnbounded /\ [][NextChain]_vars

\* the engine handling incoming messages of one session
InitEngineRun ==
    /\ config = DocConfig
    /\ InitStore
    /\ \E reg \in {RegisterAll(EngineAgents, 1, EmptyRegistry), EmptyRegistry} :
          /\ agents = reg.agents
          /\ defaultAgentId = reg.defaultAgentId
          /\ llmProviders = reg.llmProviders
    /\ InitEngine
    /\ InitMemory
    /\ InitPermissions
    /\ addCalls = NoCalls
    /\ plugins = <<>>
    /\ groupChatConfig \in GroupChatConfigs

NextEngine ==
    \/ \E h \in OneAtATime, content \in EngineTexts, isGroup \in BOOLEAN :
           HandleIncomingMessage(h, content, isGroup)
    \/ \E h \in OneAtATime, response \in EngineTexts : LlmReturns(h, response)
    \/ \E h \in OneAtATime : DelayElapsed(h)
    \/ \E h \in OneAtATime, response \in EngineTexts : ChainLlmReturns(h, response)
    \/ \E h \in OneAtATime : LlmFails(h)
    \/ \E h \in OneAtATime : HandlerReturns(h)

SpecEngine == InitEngineRun /\ [][NextEngine]_vars

\* the engine with clearSession called while messages are handled
NextClear ==
    \/ NextEngine
    \/ ClearSession

SpecClear == InitEngineRun /\ [][NextClear]_vars

\* the engine without agents, where every incoming message goes through
\* buildContext; the texts are one that isImportantInfo keeps and one that
\* it does not
MaxRecall == 3       \* incoming messages per run of the engine without agents

RecallTexts == {LiveInTokyoZh, NiceWeather}

InitRecall ==
    /\ config = DocConfig
    /\ InitStore
    /\ InitRegistry
    /\ InitEngine
    /\ InitMemory
    /\ InitPermissions
    /\ addCalls = NoCalls
    /\ plugins = <<>>
    /\ groupChatConfig = DocGroupChat

NextRecall ==
    \/ \E h \in OneAtATime, content \in RecallTexts :
           HandleIncomingBounded(h, content, FALSE, MaxRecall)
    \/ \E h \in OneAtATime, response \in RecallTexts : LlmReturns(h, response)
    \/ \E h \in OneAtATime : LlmFails(h)
    \/ \E h \in OneAtATime : HandlerReturns(h)

SpecRecall == InitRecall /\ [][NextRecall]_vars

\* the engine when every pending LLM call, pacing delay and send completes:
\* a suspended handler is resumed
EngineCompletes ==
    \A h \in OneAtATime :
        /\ WF_vars(\E response \in EngineTexts : LlmReturns(h, response))
        /\ WF_vars(DelayElapsed(h))
        /\ WF_vars(\E response \in EngineTexts : ChainLlmReturns(h, response))
        /\ WF_vars(HandlerReturns(h))

SpecEngineLive == InitEngineRun /\ [][NextEngine]_vars /\ EngineCompletes

\* the engine with two messages of one session in flight at a time, under
\* the start script's policy and under one that chains once
ChainOnceGroupChat ==
    [enabled |-> TRUE, agentInteraction |-> TRUE, maxAgentChain |-> 1, chainThreshold |-> 100]

InitConcurrent ==
    /\ config = DocConfig
    /\ InitStore
    /\ \E reg \in {RegisterAll(EngineAgents, 1, EmptyRegistry), EmptyRegistry} :
          /\ agents = reg.agents
          /\ defaultAgentId = reg.defaultAgentId
          /\ llmProviders = reg.llmProviders
    /\ InitEngine
    /\ InitMemory
    /\ InitPermissions
    /\ addCalls = NoCalls
    /\ plugins = <<>>
    /\ groupChatConfig \in {DocGroupChat, ChainOnceGroupChat}

NextConcurrent ==
    \/ \E h \in Handlers, content \in ConcurrentTexts, isGroup \in BOOLEAN :
           HandleIncomingBounded(h, content, isGroup, MaxConcurrent)
    \/ \E h \in Handlers, response \in ConcurrentTexts : LlmReturns(h, response)
    \/ \E h \in Handlers : DelayElapsed(h)
    \/ \E h \in Handlers, response \in ConcurrentTexts : ChainLlmReturns(h, response)
    \/ \E h \in Handlers : LlmFails(h)
    \/ \E h \in Handlers : HandlerReturns(h)

SpecConcurrent == InitConcurrent /\ [][NextConcurrent]_vars

\* the memory manager constructed in local mode
InitMemoryRun ==
    /\ config = DocConfig
    /\ InitStore
    /\ InitRegistry
    /\ InitEngine
    /\ groupChatConfig = DocGroupChat
    /\ plugins = <<>>
    /\ InitMemory
    /\ InitPermissions
    /\ addCalls = NoCalls

NextMemory ==
    \/ \E messages \in MemMessages, userId \in Users, metadata \in Metadatas :
           AddMemory(messages, userId, metadata, "none")
    \/ \E query \in MemQueries, userId \in Users, limit \in 0..MaxLimit :
           SearchMemory(query, userId, limit, "none", <<>>)
    \/ \E userId \in Users : GetAllMemories(userId, "none", <<>>)
    \/ \E memoryId \in MemoryIds : DeleteMemory(memoryId, "none")

SpecMemory == InitMemoryRun /\ [][NextMemory]_vars

\* the memory manager constructed with an API key: the client is loaded
\* asynchronously, and every remote call can succeed or fail
RemoteMessages ==
    {<<Turn("user", LiveInTokyoZh)>>, <<Turn("user", NiceWeather)>>}
RemoteQueries == {<<"a">>, <<"B">>}

InitRemoteRun ==
    /\ config = DocConfig
    /\ InitStore
    /\ InitRegistry
    /\ InitEngine
    /\ groupChatConfig = DocGroupChat
    /\ plugins = <<>>
    /\ InitMemoryRemote
    /\ InitPermissions
    /\ addCalls = NoCalls

NextRemote ==
    \/ \E found \in BOOLEAN : InitClient(found)
    \/ \E messages \in RemoteMessages, userId \in Users,
          outcome \in RemoteOutcomes \cup {"none"} :
           AddMemory(messages, userId, NoMetadata, outcome)
    \/ \E query \in RemoteQueries, userId \in Users,
          outcome \in RemoteOutcomes \cup {"none"} :
           \E remoteResult \in RemoteResults(userId) :
               SearchMemory(query, userId, MaxLimit, outcome, remoteResult)
    \/ \E userId \in Users, outcome \in RemoteOutcomes \cup {"none"} :
           \E remoteResult \in RemoteResults(userId) :
               GetAllMemories(userId, outcome, remoteResult)
    \/ \E memoryId \in MemoryIds, outcome \in RemoteOutcomes \cup {"none"} :
           DeleteMemory(memoryId, outcome)

SpecRemote == InitRemoteRun /\ [][NextRemote]_vars

\* the permission manager checking one user of a rate-limited role
InitRate ==
    /\ config = DocConfig
    /\ InitStore
    /\ InitRegistry
    /\ InitEngine
    /\ groupChatConfig = DocGroupChat
    /\ plugins = <<>>
    /\ InitMemory
    /\ \E rl \in RateLimits : InitPermissionsFor(rl)
    /\ addCalls = NoCalls

NextRate ==
    \/ CheckRateLimit
    \/ \E d \in TickValues : Tick(d)

SpecRate == InitRate /\ [][NextRate]_vars

\* concurrent addMessage calls on one session
InitInterleaved ==
    /\ config \in Configs
    /\ InitStore
    /\ InitRegistry
    /\ InitEngine
    /\ InitMemory
    /\ InitPermissions
    /\ addCalls = NoCalls
    /\ plugins = <<>>
    /\ groupChatConfig = DocGroupChat

NextInterleaved ==
    \/ \E c \in CallIds : AddStart(c, "user")
    \/ \E c \in CallIds : AddResume(c)

SpecInterleaved == InitInterleaved /\ [][NextInterleaved]_vars

\* new PluginManager()
InitPlugins ==
    /\ config = DocConfig
    /\ InitStore
    /\ InitRegistry
    /\ InitEngine
    /\ InitMemory
    /\ InitPermissions
    /\ addCalls = NoCalls
    /\ groupChatConfig = DocGroupChat
    /\ plugins = <<>>

NextPlugins ==
    \/ \E def \in PluginDefs : RegisterPlugin(def)
    \/ GetPlugins
    \/ \E content \in PluginContents : ProcessMessage(content)

SpecPlugins == InitPlugins /\ [][NextPlugins]_vars

----------------------------------------------------------------------------
(* Properties of ContextManager *)

Window(s) == GetOrEmpty(shortTermMemory, s)
Summ(s) == GetOrEmpty(summaries, s)

\* C1: after every addMessage call (compacting or not) each session's live
\* window holds at most shortTermWindow turns.
C1_WindowBound ==
    \A s \in Sessions : Len(Window(s)) <= config.shortTermWindow

\* an addMessage has just returned on a session that was compacted before
\* and whose window is full again
C1_Witness ==
    /\ last.op = "addMessage"
    /\ Len(Summ(last.session)) >= 1
    /\ Len(Window(last.session)) = config.shortTermWindow

\* C2: an addMessage call that brings the window to length L with
\* L >= compressThreshold and L >= 10 adds exactly one summary and leaves
\* the L - floor(L/2) newest turns, the appended one included, in order.
C2_Compaction ==
    [][\A s \in Sessions :
         LET L == Len(Window(s)) + 1
             grown == Append(Window(s), last'.returned)
         IN (/\ last'.op = "addMessage"
             /\ last'.session = s
             /\ appended'[s] = appended[s] + 1
             /\ L >= config.compressThreshold
             /\ L >= 10)
            => /\ Len(Summ(s)') = Len(Summ(s)) + 1
               /\ SubSeq(Summ(s)', 1, Len(Summ(s))) = Summ(s)
               /\ Len(Window(s)') = L - (L \div 2)
               /\ Window(s)' = SubSeq(grown, (L \div 2) + 1, L)
               /\ Window(s)'[Len(Window(s)')] = last'.returned]_vars

\* the 11th turn has just been appended under compressThreshold = 11:
\* five turns were folded into the first summary, six stay
C2_Witness ==
    /\ config.compressThreshold = 11
    /\ last.op = "addMessage"
    /\ appended[last.session] = 11
    /\ Len(Summ(last.session)) = 1
    /\ Len(Window(last.session)) = 6

\* C3 (as claimed): under the documented configuration a session that has
\* received compressThreshold or more addMessage calls has a summary.
C3_DocCompression ==
    \A s \in Sessions :
        appended[s] >= DocConfig.compressThreshold => Len(Summ(s)) >= 1

\* C8: getContext changes neither map; with summaries it returns one system
\* turn carrying all summaries in creation order followed by the window,
\* without summaries the window, and for an unknown session the empty
\* sequence without creating an entry.
C8_GetContext ==
    [][last'.op = "getContext" =>
         LET s == last'.session
             ret == last'.returned
         IN /\ shortTermMemory' = shortTermMemory
            /\ summaries' = summaries
            /\ Len(Summ(s)) >= 1 =>
                  /\ Len(ret) = Len(Window(s)) + 1
                  /\ ret[1].role = "system"
                  /\ ret[1].content = <<SummaryHeader>> \o Summ(s)
                  /\ Tail(ret) = Window(s)
            /\ Len(Summ(s)) = 0 => ret = Window(s)
            /\ s \notin DOMAIN shortTermMemory =>
                  /\ ret = <<>>
                  /\ s \notin DOMAIN shortTermMemory'
                  /\ s \notin DOMAIN summaries']_vars

\* getContext has returned for a session with two summaries and live turns
C8_Witness ==
    /\ last.op = "getContext"
    /\ Len(Summ(last.session)) = 2
    /\ Len(Window(last.session)) >= 1
    /\ Len(last.returned) = Len(Window(last.session)) + 1

\* C9: after clearContext(s) getStats(s) is {0, 0}; a second clearContext(s)
\* changes nothing; the other sessions' windows and summaries are untouched.
C9_ClearContext ==
    [][/\ last'.op = "clearContext" =>
            LET s == last'.session
            IN /\ getStats(shortTermMemory', summaries', s) = [messages |-> 0, summaries |-> 0]
               /\ \A t \in Sessions \ {s} :
                     /\ (t \in DOMAIN shortTermMemory') = (t \in DOMAIN shortTermMemory)
                     /\ (t \in DOMAIN summaries') = (t \in DOMAIN summaries)
                     /\ Window(t)' = Window(t)
                     /\ Summ(t)' = Summ(t)
               /\ (last.op = "clearContext" /\ last.session = s) =>
                     /\ shortTermMemory' = shortTermMemory
                     /\ summaries' = summaries
       /\ (last.op = "clearContext" /\ last'.op = "getStats" /\ last'.session = last.session) =>
            last'.returned = [messages |-> 0, summaries |-> 0]]_vars

\* session s1 has just been cleared while session s2 still holds turns
C9_Witness ==
    /\ last.op = "clearContext"
    /\ last.session = "s1"
    /\ "s1" \notin DOMAIN shortTermMemory
    /\ "s1" \notin DOMAIN summaries
    /\ Len(Window("s2")) >= 1

\* C10: while no compaction has been triggered, the window after N
\* addMessage calls is the last min(N, shortTermWindow) appended turns in
\* append order.
C10_SlidingWindow ==
    \A s \in Sessions :
        Len(Summ(s)) = 0 =>
            LET N == appended[s]
                K == Min(N, config.shortTermWindow)
            IN /\ Len(Window(s)) = K
               /\ \A i \in 1..K : Window(s)[i].id = N - K + i

\* more turns than the window holds were appended and none was compacted
C10_Witness ==
    /\ last.op = "addMessage"
    /\ Len(Summ(last.session)) = 0
    /\ appended[last.session] > config.shortTermWindow + 1
    /\ Len(Window(last.session)) = config.shortTermWindow

----------------------------------------------------------------------------
(* Properties of the chain loop *)

\* C4: while one incoming message is handled, the LLM calls made inside
\* sendMessageWithPossibleChain never outnumber maxAgentChain (none at all
\* when maxAgentChain = 0), whatever the draws and the response texts.
C4_ChainBound ==
    \A h \in Handlers : eng[h].chainCalls <= groupChatConfig.maxAgentChain

\* the chain has made maxAgentChain calls and stopped although the last
\* response names another agent and every draw succeeds
C4_Witness ==
    \E h \in Handlers :
        /\ eng[h].pc = "done"
        /\ groupChatConfig.maxAgentChain >= 1
        /\ groupChatConfig.chainThreshold = 100
        /\ eng[h].chainCalls = groupChatConfig.maxAgentChain
        /\ last.op = "chainLlmReturns"
        /\ \E i \in 1..Len(agents) :
              /\ agents[i].id # eng[h].lastAgentId
              /\ includes(toLowerCase(last.response), toLowerCase(agents[i].name))

----------------------------------------------------------------------------
(* Properties of AgentManager *)

\* pat occurs in text, letter case ignored
ContainsCI(text, pat) ==
    \E i \in 0..(Len(text) - Len(pat)) :
        \A k \in 1..Len(pat) : Lower(text[i + k]) = Lower(pat[k])

HasTriggerIn(agent, text) ==
    \E t \in 1..Len(agent.triggers) : ContainsCI(text, agent.triggers[t])

\* one of @name, name, triggers occurs in the text
MatchesResponse(agent, text) ==
    \/ ContainsCI(text, <<"@">> \o agent.name)
    \/ ContainsCI(text, agent.name)
    \/ HasTriggerIn(agent, text)

Registered(agent) == \E i \in 1..Len(agents) : agents[i] = agent

\* the registered agents named by an assistant turn of the context
ContinuityAgents(context) ==
    {AgentGet(agents, context[i].agentId) :
        i \in {j \in 1..Len(context) : /\ context[j].role = "assistant"
                                       /\ context[j].agentId # NoAgentId
                                       /\ HasAgent(agents, context[j].agentId)}}

NoTriggerNoMention(content) ==
    /\ \A i \in 1..Len(agents) : ~HasTriggerIn(agents[i], content)
    /\ \/ ~atMatch(content).found
       \/ \A i \in 1..Len(agents) : ~ContainsCI(agents[i].name, atMatch(content).word)

\* C5: selectAgent returns the first registered agent with a trigger in
\* the content, whatever is mentioned and whoever answered last; else the
\* first registered agent whose name contains the @word; else an agent of
\* the conversation or the default, the default when the context names no
\* registered agent.
C5_SelectPrecedence ==
    last.op = "selectAgent" =>
        LET content == last.content
            ret == last.returned
            trig == {i \in 1..Len(agents) : HasTriggerIn(agents[i], content)}
            m == atMatch(content)
            ment == {i \in 1..Len(agents) :
                        m.found /\ ContainsCI(agents[i].name, m.word)}
            dflt == getDefaultAgent(agents, defaultAgentId)
        IN IF trig # {} THEN ret = agents[First(trig)]
           ELSE IF ment # {} THEN ret = agents[First(ment)]
           ELSE /\ ret \in ContinuityAgents(last.context) \cup {dflt}
                /\ ContinuityAgents(last.context) = {} => ret = dflt

\* a trigger of cy is in the content, the content @-mentions ann and bob
\* answered last: cy is returned
C5_Witness ==
    /\ last.op = "selectAgent"
    /\ last.returned = Cy
    /\ atMatch(last.content).found
    /\ HasAgent(agents, "ann")
    /\ ContainsCI(Ann.name, atMatch(last.content).word)
    /\ last.context = <<[role |-> "assistant", agentId |-> "bob"]>>
    /\ HasAgent(agents, "bob")

\* the most recent assistant turn of the context, and the most recent one
\* that carries an agentId
LatestAssistantIdx(context) ==
    {i \in 1..Len(context) : context[i].role = "assistant"}
LatestTaggedIdx(context) ==
    {i \in 1..Len(context) : context[i].role = "assistant" /\ context[i].agentId # NoAgentId}

\* C6 (as claimed): without trigger and mention, the agent of the most
\* recent assistant turn that carries an agentId is returned if registered,
\* turns without agentId being skipped; else the default.
C6_SkipUntagged ==
    (last.op = "selectAgent" /\ NoTriggerNoMention(last.content)) =>
        LET tagged == LatestTaggedIdx(last.context)
        IN IF tagged # {} /\ HasAgent(agents, last.context[Latest(tagged)].agentId)
           THEN last.returned = AgentGet(agents, last.context[Latest(tagged)].agentId)
           ELSE last.returned = getDefaultAgent(agents, defaultAgentId)

\* C6 (amended): without trigger and mention, only the most recent
\* assistant turn counts: its agent is returned if it carries the agentId
\* of a registered agent; in every other case the default agent.
C6_LastAssistantOnly ==
    (last.op = "selectAgent" /\ NoTriggerNoMention(last.content)) =>
        LET asst == LatestAssistantIdx(last.context)
        IN IF /\ asst # {}
              /\ last.context[Latest(asst)].agentId # NoAgentId
              /\ HasAgent(agents, last.context[Latest(asst)].agentId)
           THEN last.returned = AgentGet(agents, last.context[Latest(asst)].agentId)
           ELSE last.returned = getDefaultAgent(agents, defaultAgentId)

\* ann answered, then an assistant turn without agentId followed: the
\* default agent bob is returned, not ann
C6_Witness ==
    /\ last.op = "selectAgent"
    /\ NoTriggerNoMention(last.content)
    /\ last.context = <<[role |-> "assistant", agentId |-> "ann"],
                        [role |-> "assistant", agentId |-> NoAgentId]>>
    /\ HasAgent(agents, "ann")
    /\ defaultAgentId = "bob"
    /\ last.returned.id = "bob"

\* C7: a chain decision names a registered agent other than lastAgentId
\* with a pattern in the response, and every draw before the deciding one
\* failed; there is no chain when group chat or agent interaction is off,
\* chainCount >= maxAgentChain, or no other agent matches.
C7_ChainDecision ==
    last.op = "shouldChainAgent" =>
        LET ret == last.returned
            n == Len(last.draws)
        IN /\ ret.shouldChain =>
                /\ Registered(ret.nextAgent)
                /\ ret.nextAgent.id # last.lastAgentId
                /\ MatchesResponse(ret.nextAgent, last.response)
                /\ n >= 1
                /\ last.draws[n] = [agentId |-> ret.nextAgent.id, hit |-> TRUE]
                /\ \A k \in 1..(n - 1) : ~last.draws[k].hit
           /\ (\/ ~groupChatConfig.enabled
               \/ ~groupChatConfig.agentInteraction
               \/ last.chainCount >= groupChatConfig.maxAgentChain
               \/ \A i \in 1..Len(agents) :
                     agents[i].id = last.lastAgentId \/ ~MatchesResponse(agents[i], last.response))
              => ~ret.shouldChain

\* the chain goes to an agent after the draw of an earlier matching agent
\* failed
C7_Witness ==
    /\ last.op = "shouldChainAgent"
    /\ last.returned.shouldChain
    /\ \E k \in 1..Len(last.draws) :
          ~last.draws[k].hit /\ last.draws[k].agentId # last.returned.nextAgent.id

----------------------------------------------------------------------------
(* Session isolation of ContextManager *)

\* C11: an addMessage call for one session, with the compaction and the
\* trimming it triggers, leaves the window, the summaries and the stats of
\* every other session unchanged, whatever was done on either session before.
C11_SessionIsolation ==
    [][\A s \in Sessions :
         (/\ last'.op = "addMessage"
          /\ last'.session = s
          /\ appended'[s] = appended[s] + 1)
         => \A t \in Sessions \ {s} :
              /\ (t \in DOMAIN shortTermMemory') = (t \in DOMAIN shortTermMemory)
              /\ (t \in DOMAIN summaries') = (t \in DOMAIN summaries)
              /\ Window(t)' = Window(t)
              /\ Summ(t)' = Summ(t)
              /\ getStats(shortTermMemory', summaries', t)
                     = getStats(shortTermMemory, summaries, t)]_vars

\* an addMessage on s1 has just compacted s1 (its first summary, the window
\* cut to the newer half) while s2 holds turns of its own
C11_Witness ==
    /\ last.op = "addMessage"
    /\ last.session = "s1"
    /\ Len(Summ("s1")) = 1
    /\ config.compressThreshold >= MinCompressLen
    /\ appended["s1"] = config.compressThreshold
    /\ Len(Window("s2")) = MaxOtherAdds
    /\ Len(Summ("s2")) = 0

----------------------------------------------------------------------------
(* Properties of Mem0Manager *)

Stored(u) == GetOrEmpty(localStore, u)
MemoryReads == {"searchMemory", "getAllMemories"}
MemoryUserOps == {"addMemory", "searchMemory", "getAllMemories"}

\* C12: in the local store every record returned by searchMemory(q, u, n)
\* or getAllMemories(u) has userId = u, and an addMemory, searchMemory or
\* getAllMemories call for user u leaves the list of every other user, and
\* so everything that user retrieves, unchanged.
C12_UserIsolation ==
    [][/\ (last'.op \in MemoryReads /\ last'.local)
          => \A i \in 1..Len(last'.returned) : last'.returned[i].userId = last'.user
       /\ (last'.op \in MemoryUserOps /\ last'.local)
          => \A v \in Users :
               v # last'.user =>
               /\ (v \in DOMAIN localStore') = (v \in DOMAIN localStore)
               /\ Stored(v)' = Stored(v)
               /\ localStore' # localStore
                    => \A q \in MemQueries :
                         searchMemoryLocal(localStore', q, v, MaxRecords)
                             = searchMemoryLocal(localStore, q, v, MaxRecords)]_vars

\* user u2 has just searched and got a record back while u1 holds a record
\* that the same query matches
C12_Witness ==
    /\ last.op = "searchMemory"
    /\ last.local
    /\ last.user = "u2"
    /\ Len(last.returned) >= 1
    /\ Len(searchMemoryLocal(localStore, last.query, "u1", MaxLimit)) >= 1

NonEmpty(w) == w # <<>>

\* the words of a query: its lower-cased pieces between whitespace
Words(query) == SelectSeq(split(toLowerCase(query)), NonEmpty)

\* the number of the given words that the content holds, case ignored
Contained(content, words) ==
    Cardinality({i \in 1..Len(words) : ContainsCI(content, words[i])})

PositionIn(list, id) == CHOOSE i \in 1..Len(list) : list[i].id = id

\* C13: a local searchMemory(query, userId, limit) returns at most limit
\* records of that user, each with relevance (query words contained in the
\* content) / (query words) > 0, in non-increasing relevance with ties in
\* storage order, and leaves the store unchanged.
C13_SearchRanking ==
    [][\A u \in Users :
        (last'.op = "searchMemory" /\ last'.local /\ last'.user = u)
       => LET R == last'.returned
              words == Words(last'.query)
              stored == Stored(u)
          IN /\ localStore' = localStore
             /\ Len(R) <= last'.limit
             /\ \A i \in 1..Len(R) :
                  /\ \E k \in 1..Len(stored) :
                       /\ stored[k].id = R[i].id
                       /\ stored[k].content = R[i].content
                  /\ Len(words) > 0
                  /\ R[i].score.num * Len(words)
                         = Contained(R[i].content, words) * R[i].score.den
                  /\ Contained(R[i].content, words) > 0
             /\ \A i, j \in 1..Len(R) :
                  i < j => /\ ~ScoreLess(R[i].score, R[j].score)
                           /\ ~ScoreLess(R[j].score, R[i].score)
                                => PositionIn(stored, R[i].id) < PositionIn(stored, R[j].id)]_vars

\* C14 (as stated): addMemory given the single user turn "I live in Tokyo"
\* creates exactly one record for that user, given "nice weather today"
\* none, and assistant and system turns never create records.
C14_TokyoExtraction ==
    [][\A u \in Users :
        (last'.op = "addMemory" /\ last'.local /\ last'.user = u)
       => LET created == Len(Stored(u)') - Len(Stored(u))
          IN /\ last'.messages = <<Turn("user", LiveInTokyo)>> => created = 1
             /\ last'.messages = <<Turn("user", NiceWeather)>> => created = 0
             /\ (\A i \in 1..Len(last'.messages) : last'.messages[i].role # "user")
                    => created = 0]_vars

\* C14 (amended): addMemory given a single user turn that holds one of the
\* importance keywords (here the location statement with the keyword
\* u6211 u4F4F) appends exactly one record with that content for that user;
\* given "I live in Tokyo" or "nice weather today", which hold none, it
\* creates none; assistant and system turns never create records.
C14_KeywordExtraction ==
    [][\A u \in Users :
        (last'.op = "addMemory" /\ last'.local /\ last'.user = u)
       => LET created == Len(Stored(u)') - Len(Stored(u))
          IN /\ SubSeq(Stored(u)', 1, Len(Stored(u))) = Stored(u)
             /\ last'.messages = <<Turn("user", LiveInTokyoZh)>>
                    => /\ created = 1
                       /\ Stored(u)'[Len(Stored(u)')].content = LiveInTokyoZh
                       /\ Stored(u)'[Len(Stored(u)')].userId = u
             /\ last'.messages = <<Turn("user", LiveInTokyo)>> => created = 0
             /\ last'.messages = <<Turn("user", NiceWeather)>> => created = 0
             /\ (\A i \in 1..Len(last'.messages) : last'.messages[i].role # "user")
                    => created = 0]_vars

\* an assistant turn holding a keyword has just been handed to addMemory
\* for a user who already had one record from a keyword turn of their own
C14_Witness ==
    /\ last.op = "addMemory"
    /\ last.local
    /\ last.messages = <<Turn("assistant", LiveInTokyoZh)>>
    /\ Len(Stored(last.user)) = 1
    /\ Stored(last.user)[1].content = LiveInTokyoZh

RemoteFailed ==
    \/ last.remote = "throws"
    \/ last.remote = "malformed" /\ last.op \in MemoryReads

\* C15: with a remote client, when the remote call of addMemory,
\* searchMemory, getAllMemories or deleteMemory fails, the local
\* implementation is executed: its effect on the local store takes place and
\* its result is returned.
C15_RemoteFallback ==
    [][(last'.op \in MemoryUserOps \cup {"deleteMemory"} /\ RemoteFailed')
       => /\ last'.op = "addMemory"
               => localStore' = addMemoryLocal(localStore, nextMemoryId, last'.messages,
                                               last'.user, last'.metadata).store
          /\ last'.op = "searchMemory"
               => /\ localStore' = localStore
                  /\ last'.returned = searchMemoryLocal(localStore, last'.query,
                                                        last'.user, last'.limit)
          /\ last'.op = "getAllMemories"
               => /\ localStore' = localStore
                  /\ \A u \in Users : last'.user = u => last'.returned = Stored(u)
          /\ last'.op = "deleteMemory"
               => localStore' = deleteMemoryLocal(localStore, last'.memoryId)]_vars

----------------------------------------------------------------------------
(* Properties of the message flow of ChatBotEngine *)

IndexesOf(steps, name) == {i \in 1..Len(steps) : steps[i] = name}

\* C16: every incoming message that has reached the LLM call went through
\* these steps in this order: the user turn appended, the agent selected,
\* buildContext invoked, the LLM called; the response turn is appended
\* right after a call, and chaining is evaluated only after that.
C16_EngineOrder ==
    \A h \in Handlers :
        LET steps == eng[h].steps
        IN steps # <<>>
           => /\ Len(steps) >= 4
              /\ SubSeq(steps, 1, 4) = <<"addUser", "selectAgent", "buildContext", "chat">>
              /\ \A i \in IndexesOf(steps, "addAssistant") : steps[i - 1] = "chat"
              /\ \A i \in IndexesOf(steps, "shouldChainAgent") :
                     \E j \in IndexesOf(steps, "addAssistant") : j < i

\* C17: when the LLM call of a chain hop fails, the chain is aborted: the
\* failing step appends no turn and sends nothing, the window with the turns
\* of the initial response and of the earlier hops stays as it is, the
\* failure is reported once, and the handler does nothing more than return.
C17_ChainAbort ==
    [][\A h \in Handlers :
         /\ (eng[h].pc = "chainLlm" /\ last'.op = "llmFails" /\ last'.handler = h)
            => /\ shortTermMemory' = shortTermMemory
               /\ summaries' = summaries
               /\ eng'[h].sent = eng[h].sent
               /\ eng'[h].chainCalls = eng[h].chainCalls
               /\ eng'[h].errors = 1
               /\ eng'[h].pc = "done"
         /\ eng[h].errors >= 1
            => \/ eng'[h] = eng[h]
               \/ eng'[h] = IdleHandler]_vars

\* the LLM call of the second hop has just failed: the reply and the first
\* hop were sent and their turns are in the window after the user turn
C17_Witness ==
    \E h \in Handlers :
        /\ last.op = "llmFails"
        /\ last.handler = h
        /\ eng[h].chainCalls = 2
        /\ eng[h].sent = 2
        /\ eng[h].errors = 1
        /\ Len(Window(EngineSession)) = 3
        /\ Window(EngineSession)[1].role = "user"
        /\ Window(EngineSession)[2].role = "assistant"
        /\ Window(EngineSession)[3].role = "assistant"

----------------------------------------------------------------------------
(* The default agent of AgentManager *)

MarkedDefault == {i \in 1..Len(agents) : agents[i].isDefault}

\* C18: after any sequence of registerAgent calls getDefaultAgent returns
\* an agent whose current definition is marked isDefault when such an agent
\* exists, and the first-registered agent when none is marked.
C18_DefaultAgent ==
    agents # <<>>
    => LET d == getDefaultAgent(agents, defaultAgentId)
       IN IF MarkedDefault # {} THEN d.isDefault ELSE d = agents[1]

----------------------------------------------------------------------------
(* Properties of PluginManager *)

\* the plugins whose shouldHandle accepts the content and whose handle
\* resolves with a reply
Repliers(content) ==
    {i \in 1..Len(plugins) :
        /\ plugins[i].shouldHandle[content]
        /\ plugins[i].handle[content] \notin {Null, Throws}}

\* C19: after any sequence of registerPlugin calls the plugin list is in
\* ascending priority with equal priorities in registration order, and
\* processMessage returns the reply of the first plugin in that order that
\* accepts the content and replies, a throwing or null-returning handle
\* being passed over, and null when there is none.
C19_PluginOrder ==
    /\ \A i, j \in 1..Len(plugins) :
         i < j => /\ plugins[i].priority <= plugins[j].priority
                  /\ plugins[i].priority = plugins[j].priority
                       => plugins[i].registered < plugins[j].registered
    /\ last.op = "getPlugins" => last.returned = plugins
    /\ last.op = "processMessage"
         => LET repliers == Repliers(last.content)
            IN IF repliers = {}
               THEN last.returned = Null
               ELSE \E i \in repliers :
                      /\ \A j \in repliers : i <= j
                      /\ last.returned = plugins[i].handle[last.content]

\* "/help" has just been processed: the throwing plugin of priority 1 and
\* the null-returning plugin of priority 99 registered before the help
\* plugin were passed over, and the help plugin, registered last, replied
C19_Witness ==
    /\ last.op = "processMessage"
    /\ last.content = "/help"
    /\ last.returned = "help text"
    /\ Len(plugins) = 3
    /\ plugins[1].name = "broken"
    /\ plugins[2].name = "silent"
    /\ plugins[3].name = "help"
    /\ plugins[1].registered = 2

----------------------------------------------------------------------------
(* Two messages of one session in flight *)

\* the position in the window of the turn with the given id, 0 if absent
PositionOfTurn(w, id) ==
    IF \E i \in 1..Len(w) : w[i].id = id
    THEN CHOOSE i \in 1..Len(w) : w[i].id = id
    ELSE 0

\* C20: nothing orders two messages of one session: when the LLM call of
\* message m1 returns after the user turn of a second message m2 was
\* appended, m1's reply goes to the end of the window, behind m2's user
\* turn, so m2's user turn stands between m1's user turn and m1's reply.
C20_Interleaving ==
    [][\A h \in Handlers, g \in Handlers :
         (/\ last'.op = "llmReturns"
          /\ last'.handler = h
          /\ eng[h].pc = "llm"
          /\ g # h
          /\ eng[g].pc # "idle"
          /\ eng[g].userTurn > eng[h].userTurn)
         => LET w == Window(EngineSession)'
            IN /\ w[Len(w)].role = "assistant"
               /\ w[Len(w)].content = last'.response
               /\ PositionOfTurn(w, eng[h].userTurn) < PositionOfTurn(w, eng[g].userTurn)
               /\ PositionOfTurn(w, eng[g].userTurn) < Len(w)]_vars

\* the window is user turn of m1, user turn of m2, reply to m1: m2 arrived
\* while m1 was suspended at its LLM call, and m2 is still waiting for its own
C20_Witness ==
    LET w == Window(EngineSession)
    IN /\ last.op = "llmReturns"
       /\ last.handler = "h1"
       /\ eng["h2"].pc = "llm"
       /\ eng["h1"].userTurn = 1
       /\ eng["h2"].userTurn = 2
       /\ Len(w) = 3
       /\ w[1].role = "user" /\ w[1].id = 1
       /\ w[2].role = "user" /\ w[2].id = 2
       /\ w[3].role = "assistant"

----------------------------------------------------------------------------
(* The random draws of shouldChainAgent *)

\* C21: shouldChainAgent makes at most one random draw per candidate agent:
\* after a failed draw for one matching pattern of an agent, no further
\* draw is made for another matching pattern of the same agent.
C21_OneDrawPerAgent ==
    last.op = "shouldChainAgent"
    => \A i, j \in 1..Len(last.draws) :
         i < j => last.draws[i].agentId # last.draws[j].agentId


----------------------------------------------------------------------------
(* Conservation of turns *)

\* 10 <= compressThreshold <= shortTermWindow + 1
CompactsBeforeTrim ==
    /\ MinCompressLen <= config.compressThreshold
    /\ config.compressThreshold <= config.shortTermWindow + 1

\* C22: with 10 <= compressThreshold <= shortTermWindow + 1 no addMessage
\* call discards a turn: the window after the call is the window before it
\* plus the new turn, either whole (and the summaries are unchanged) or
\* without its older half, which is exactly what the one summary added by
\* the call was made from; the trim after a compaction takes nothing from
\* the new window.  So the turns folded into summaries plus the window
\* length always equal the turns appended.
C22_NoTurnLost ==
    [][\A s \in Sessions :
         (CompactsBeforeTrim /\ last'.op = "addMessage" /\ last'.session = s)
         => LET all == GetOrEmpty(shortTermMemory, s) \o <<last'.returned>>
                window == GetOrEmpty(shortTermMemory', s)
                half == Len(all) \div 2
            IN \/ /\ window = all
                  /\ summaries' = summaries
               \/ /\ Len(all) >= config.compressThreshold
                  /\ window = SubSeq(all, half + 1, Len(all))
                  /\ GetOrEmpty(summaries', s)
                       = Append(GetOrEmpty(summaries, s),
                                generateSimpleSummary(SubSeq(all, 1, half)))]_vars

\* a compacting call made with compressThreshold = shortTermWindow + 1: the
\* array the call pushed to is longer than the window and is shifted
C22_Witness ==
    /\ CompactsBeforeTrim
    /\ config.compressThreshold = config.shortTermWindow + 1
    /\ last.op = "addMessage"
    /\ appended[last.session] = config.compressThreshold
    /\ Len(GetOrEmpty(summaries, last.session)) = 1
    /\ Len(GetOrEmpty(shortTermMemory, last.session))
         = config.compressThreshold - config.compressThreshold \div 2


\* C23: with compressThreshold < 10 an addMessage call that leaves the
\* window at a length below 10 compacts nothing, although the length may
\* have reached compressThreshold: the summaries are unchanged and the
\* window is the old window plus the new turn, trimmed by one turn when it
\* exceeds shortTermWindow.  A call changes the summaries only when the
\* window reached length 10, which needs shortTermWindow >= 9.
C23_SmallThreshold ==
    [][\A s \in Sessions :
         (config.compressThreshold < MinCompressLen
            /\ last'.op = "addMessage" /\ last'.session = s)
         => LET all == GetOrEmpty(shortTermMemory, s) \o <<last'.returned>>
                window == GetOrEmpty(shortTermMemory', s)
            IN /\ Len(all) < MinCompressLen
                    => /\ summaries' = summaries
                       /\ window = IF Len(all) > config.shortTermWindow
                                    THEN Tail(all) ELSE all
               /\ summaries' # summaries
                    => /\ Len(all) = MinCompressLen
                       /\ config.shortTermWindow >= MinCompressLen - 1]_vars

\* a call that left the window at a length from compressThreshold to 9
\* after trimming it, with nothing compacted so far
C23_Witness ==
    /\ config.compressThreshold < MinCompressLen
    /\ last.op = "addMessage"
    /\ Len(GetOrEmpty(shortTermMemory, last.session)) >= config.compressThreshold
    /\ Len(GetOrEmpty(shortTermMemory, last.session)) < MinCompressLen
    /\ Len(GetOrEmpty(shortTermMemory, last.session)) = config.shortTermWindow
    /\ appended[last.session] > config.shortTermWindow
    /\ GetOrEmpty(summaries, last.session) = <<>>


----------------------------------------------------------------------------
(* Termination of the chain *)

\* C24: when every LLM call, delay and send completes, the handling of one
\* incoming message ends; on the way the chain depth changes only when a
\* chained response is re-evaluated, then by exactly 1, and never exceeds
\* maxAgentChain, whatever the responses mention and the draws give.
C24_ChainTerminates ==
    /\ \A h \in OneAtATime : (eng[h].pc # "idle") ~> (eng[h].pc = "idle")
    /\ [][\A h \in OneAtATime :
            /\ (last'.op = "chainLlmReturns" /\ last'.handler = h)
                 => /\ eng'[h].chainCount = eng[h].chainCount + 1
                    /\ eng'[h].chainCount <= groupChatConfig.maxAgentChain
            /\ (eng'[h].chainCount # eng[h].chainCount /\ eng'[h].chainCount # 0)
                 => last'.op = "chainLlmReturns"]_vars

\* a chain that stopped at depth maxAgentChain with chainThreshold = 1: one
\* reply per depth was sent and the last one names another agent
C24_Witness ==
    \E h \in OneAtATime :
        /\ eng[h].pc = "done"
        /\ groupChatConfig.chainThreshold = 100
        /\ groupChatConfig.maxAgentChain >= 1
        /\ eng[h].chainCount = groupChatConfig.maxAgentChain
        /\ eng[h].sent = eng[h].chainCount + 1
        /\ eng[h].errors = 0
        /\ last.op = "chainLlmReturns"
        /\ \E i \in 1..Len(agents) :
              /\ agents[i].id # eng[h].lastAgentId
              /\ includes(toLowerCase(last.response), toLowerCase(agents[i].name))


----------------------------------------------------------------------------
(* A policy without maxAgentChain *)

\* C25: when the policy has no maxAgentChain, shouldChainAgent never
\* answers shouldChain = true.
C25_UndefinedRejected ==
    (last.op = "shouldChainAgent" /\ "maxAgentChain" \notin DOMAIN groupChatConfig)
    => ~last.returned.shouldChain


----------------------------------------------------------------------------
(* Providers of re-registered agents *)

\* C26: after any sequence of registerAgent calls getLLMProvider(id), for a
\* registered id, returns the provider of the agent's override exactly
\* when the definition registered now has an llmOverride, and a provider
\* of the global configuration otherwise.
C26_ProviderFollowsDefinition ==
    (last.op = "getLLMProvider" /\ HasAgent(agents, last.agentId))
    => LET agent == AgentGet(agents, last.agentId)
       IN last.returned = IF agent.llmOverride # Null
                          THEN agent.llmOverride ELSE DefaultProvider


----------------------------------------------------------------------------
(* clearSession against suspended handlers *)

\* C27: after clearSession(s) returned only a new incoming message makes
\* the context of s non-empty: the step that follows the return and leaves
\* a turn in the window is handleIncomingMessage, never the resumption of
\* a handler suspended at an LLM call or at the chain delay.
C27_ClearedStaysEmpty ==
    [][(last.op = "clearSession"
          /\ GetOrEmpty(shortTermMemory', EngineSession) # <<>>)
       => last'.op = "handleIncomingMessage"]_vars


----------------------------------------------------------------------------
(* Records made by buildContext *)

\* the user turns of the window and the records of the user with content c
TurnsWith(c) ==
    {i \in 1..Len(GetOrEmpty(shortTermMemory, EngineSession)) :
        /\ shortTermMemory[EngineSession][i].role = "user"
        /\ shortTermMemory[EngineSession][i].content = c}

RecordsWith(c) ==
    {i \in 1..Len(GetOrEmpty(localStore, EngineUser)) :
        localStore[EngineUser][i].content = c}

\* C28: over the buildContext calls made for one user a user turn gives at
\* most one memory record: while every turn received is still in the
\* window, the records with a content are no more than the user turns with
\* that content.
C28_OneRecordPerTurn ==
    \A c \in RecallTexts : Cardinality(RecordsWith(c)) <= Cardinality(TurnsWith(c))


----------------------------------------------------------------------------
(* Rate limits *)

\* C29: with messagesPerHour = H > 0 and messagesPerDay = D > 0 at most H
\* calls are allowed within any 3600 seconds and at most D within any 86400
\* seconds: H + 1 allowed calls never fit in an hour, nor D + 1 in a day.
C29_RateLimit ==
    (rateLimit # Undefined /\ rateLimit.messagesPerHour > 0 /\ rateLimit.messagesPerDay > 0)
    => \A i, j \in 1..Len(allowedAt) :
          /\ j - i >= rateLimit.messagesPerHour
                => allowedAt[j] - allowedAt[i] >= HourSeconds * 1000
          /\ j - i >= rateLimit.messagesPerDay
                => allowedAt[j] - allowedAt[i] >= DaySeconds * 1000


----------------------------------------------------------------------------
(* Interleaved addMessage calls *)

\* C30: however concurrent addMessage calls on one session interleave at
\* their await, the window is a contiguous run of the append order that
\* ends with the turn appended last, and once every started call has
\* returned it holds at most shortTermWindow turns.
C30_InterleavedWindow ==
    LET w == GetOrEmpty(shortTermMemory, EngineSession)
    IN /\ \A i \in 1..(Len(w) - 1) : w[i + 1].id = w[i].id + 1
       /\ Len(w) > 0 => w[Len(w)].id = appended[EngineSession]
       /\ (\A c \in CallIds : addCalls[c].pc # "suspended")
             => Len(w) <= config.shortTermWindow

====
